---- MODULE Spec2Model ----
(***************************************************************************)
(* Verification model of getlantern/framed.                                *)
(*                                                                         *)
(* Two generations of the package are modelled:                            *)
(*   - the header/body Framed of framed.go (ReadInitial, Next, section     *)
(*     reads, Discard, CopyTo, WriteFrame), specification Spec;            *)
(*   - the mutex-protected Reader/Writer of the simple-frame package       *)
(*     (Read, Write, WritePieces), specification SpecRW.                   *)
(* Further specifications put the same calls on a stream that is closed    *)
(* (SpecEOF, SpecRWEOF), on a stream whose writes fail (SpecFail), in the  *)
(* forwarding loop of the benchmark server (SpecForward), with calls that  *)
(* fail while other tasks wait for the mutex (SpecLock), and model the     *)
(* buffer pool (SpecPool) and the ReadFrame that reads into its buffers    *)
(* (SpecPooled).                                                           *)
(***************************************************************************)
EXTENDS Integers, Sequences, FiniteSets, TLC

VARIABLES
    \* ---- header/body Framed (framed.go) ----
    sent,            \* frames the peer has put on framed.raw, in order
    rpos,            \* number of bytes consumed from framed.raw so far
    hasReadInitial,  \* Framed.hasReadInitial
    frames,          \* every Frame handed out so far, oldest first
    out,             \* what CopyTo has written to its destination writer
    caller,          \* "running", "blockedSend" or "panic"
    last,            \* the call that was made last, and what it returned
    nops,            \* number of calls made on the reading side
    \* ---- Reader / Writer (simple frames) ----
    bigFrames,       \* big frames are enabled on the Writer and the Reader
    pipe,            \* the stream is an io.Pipe: a Write waits for its reader
    pend,            \* the task whose Stream.Write the pipe still holds, or 0
    msgLen,          \* len(testMessage)
    wire,            \* bytes in the stream, written and not yet read
    hist,            \* every write the stream has received, in order
    wmutex,          \* Writer.mutex: 0 or the task holding it
    rmutex,          \* Reader.mutex: 0 or the task holding it
    wtask,           \* per writer task: position in its call
    rtask,           \* per reader task: position in its call
    \* ---- the end of a stream ----
    closed,          \* the writing end is closed: a Read at the end is io.EOF
    \* ---- a frame-writing call on a stream whose writes can fail ----
    wcall,           \* the call under way: its arguments, position and error
    \* ---- buffer pool ----
    pool,            \* width, size, free list and the buffers on lease
    pframes          \* the results of the pool-backed ReadFrame calls

framedVars == <<sent, rpos, hasReadInitial, frames, out, caller, last, nops>>
rwVars     == <<bigFrames, pipe, pend, msgLen, wire, hist, wmutex, rmutex,
                wtask, rtask>>
auxVars    == <<closed, wcall, pool, pframes>>
vars       == <<sent, rpos, hasReadInitial, frames, out, caller, last, nops,
                bigFrames, pipe, pend, msgLen, wire, hist, wmutex, rmutex,
                wtask, rtask, closed, wcall, pool, pframes>>

\* ------------------------------------------------------------------------
\* Bounds
\* ------------------------------------------------------------------------
MaxSent    == 2      \* frames written to the stream
MaxOps     == 4      \* calls on the reading side
MaxHandles == 3      \* Frame values handed out
NTasks     == 2      \* writer tasks and reader tasks
MaxPartial == 1      \* short reads the stream makes within one call
MaxLeases  == 3      \* pool buffers on lease at a time

\* lengths of the header and body slices passed to WriteFrame
HeaderLens == {0, 2, 65535}
BodyLens   == {0, 3, 65535}
\* len(p) of the buffers passed to a section's Read
ReadSizes == {1, 65535}

Min(a, b) == IF a < b THEN a ELSE b

\* ------------------------------------------------------------------------
\* Wire codec: binary.Write / binary.Read of a uint16, little endian
\* ------------------------------------------------------------------------
Uint16Range == 65536

ToUint16(n) == n % Uint16Range

\* the two bytes in big-endian order
PutUint16_swapped(v) == << (v \div 256) % 256, v % 256 >>

\* binary.Write(out, binary.LittleEndian, v) of a uint16
PutUint16(v) == << v % 256, (v \div 256) % 256 >>

GetUint16(b) == b[1] + 256 * b[2]

\* ------------------------------------------------------------------------
\* The raw stream under a Framed: the frames written so far, laid end to
\* end.  A byte is named by its offset from the start of the stream.
\* ------------------------------------------------------------------------
PrefixLength == 4

\* the test data: headers are "HI", bodies are "BYE", repeated to the
\* length of the slice
HeaderText == << 72, 73 >>
BodyText   == << 66, 89, 69 >>

HeaderByte(o) == HeaderText[(o % Len(HeaderText)) + 1]
BodyByte(o)   == BodyText[(o % Len(BodyText)) + 1]

\* a WriteFrame that sends the body before the header
FrameWrites_bodyFirst(headerLength, bodyLength, header, body) ==
    << [t |-> "headerLength", v |-> headerLength, n |-> 2],
       [t |-> "bodyLength", v |-> bodyLength, n |-> 2] >>
    \o (IF ~body.nil /\ body.len > 0
        THEN << [t |-> "body", v |-> 0, n |-> body.len] >> ELSE <<>>)
    \o (IF ~header.nil /\ header.len > 0
        THEN << [t |-> "header", v |-> 0, n |-> header.len] >> ELSE <<>>)

\* The Writes of WriteFrame on framed.raw that carry bytes, in order:
\* writeHeaderTo writes the two lengths, then the header slice and the body
\* slice are written unless nil.
FrameWrites(headerLength, bodyLength, header, body) ==
    << [t |-> "headerLength", v |-> headerLength, n |-> 2],
       [t |-> "bodyLength", v |-> bodyLength, n |-> 2] >>
    \o (IF ~header.nil /\ header.len > 0
        THEN << [t |-> "header", v |-> 0, n |-> header.len] >> ELSE <<>>)
    \o (IF ~body.nil /\ body.len > 0
        THEN << [t |-> "body", v |-> 0, n |-> body.len] >> ELSE <<>>)

RECURSIVE WritesLength(_)
WritesLength(ws) == IF ws = <<>> THEN 0 ELSE Head(ws).n + WritesLength(Tail(ws))

\* byte o of the bytes the writes ws put on the stream
RECURSIVE ByteIn(_, _)
ByteIn(ws, o) ==
    LET r == Head(ws)
    IN  IF o >= r.n THEN ByteIn(Tail(ws), o - r.n)
        ELSE IF r.t \in {"headerLength", "bodyLength"} THEN PutUint16(r.v)[o + 1]
        ELSE IF r.t = "header" THEN HeaderByte(o)
        ELSE BodyByte(o)

WireLength(f) == WritesLength(f.writes)

RECURSIVE StartOf(_)
StartOf(k) == IF k = 1 THEN 0 ELSE StartOf(k - 1) + WireLength(sent[k - 1])

Written == IF sent = <<>> THEN 0
           ELSE StartOf(Len(sent)) + WireLength(sent[Len(sent)])

Avail == Written - rpos

FrameAt(p) == CHOOSE k \in 1..Len(sent) :
                  StartOf(k) <= p /\ p < StartOf(k) + WireLength(sent[k])

ByteAt(p) == LET k == FrameAt(p) IN ByteIn(sent[k].writes, p - StartOf(k))

\* ------------------------------------------------------------------------
\* Frame and frameSection (framed.go)
\* ------------------------------------------------------------------------
Sections == {"header", "body"}

\* capacity of Frame.doneReading
ChanCap == 1

\* A chunk of the stream delivered to a caller is the interval <<from, to>>
\* of stream offsets; chunks that follow one another are one chunk.
AddChunk(got, from, n) ==
    IF n = 0 THEN got
    ELSE IF got # <<>> /\ got[Len(got)][2] = from
         THEN [got EXCEPT ![Len(got)] = << got[Len(got)][1], from + n >>]
         ELSE Append(got, << from, from + n >>)

\* readLengths: the two length fields are decoded from the four bytes at
\* pos and the three counters are set from them.
readLengths(pos, parent) ==
    LET hl == GetUint16(<< ByteAt(pos), ByteAt(pos + 1) >>)
        bl == GetUint16(<< ByteAt(pos + 2), ByteAt(pos + 3) >>)
    IN  [ headerLength   |-> hl,
          bodyLength     |-> bl,
          bytesRemaining |-> hl + bl,
          header         |-> [bytesRemaining |-> hl, startedReading |-> FALSE],
          body           |-> [bytesRemaining |-> bl, startedReading |-> FALSE],
          doneReading    |-> 0,
          \* history, not fields of the Go struct
          start      |-> pos,       \* offset of the frame's length prefix
          parent     |-> parent,    \* frame whose Next returned it, 0: ReadInitial
          got        |-> [header |-> <<>>, body |-> <<>>],  \* delivered by Read
          viaSection |-> 0,         \* bytes read through a section's Read
          signals    |-> 0,         \* sends on doneReading that went through
          nexts      |-> 0,         \* calls of Next that returned
          copies     |-> 0,         \* calls of CopyTo that forwarded the frame
          intact     |-> TRUE ]     \* stream consumed only by own section reads

\* readLengths on a closed stream that has only a < 4 bytes left.  Each of
\* the two binary.Read calls is an io.ReadFull of 2 bytes, which returns
\* io.EOF when it got no byte and io.ErrUnexpectedEOF when it got one.
readLengthsError(a) == IF a % 2 = 0 THEN "EOF" ELSE "ErrUnexpectedEOF"

\* nextFrame: a fresh Frame whose lengths are read at the stream position.
nextFrame(pos, parent) == readLengths(pos, parent)

\* The state a call works on: the frame, the stream position, and whether
\* the calling goroutine is stuck in a send on a full doneReading.
Ctx(f, pos) == [f |-> f, pos |-> pos, blk |-> FALSE]

\* checkDone: send on doneReading when the frame counter is zero.  A send
\* on a full channel never returns.
checkDone(c) ==
    IF c.blk \/ c.f.bytesRemaining # 0 THEN c
    ELSE IF c.f.doneReading = ChanCap THEN [c EXCEPT !.blk = TRUE]
    ELSE [c EXCEPT !.f.doneReading = @ + 1, !.f.signals = @ + 1]

\* a Read that forgets to record that reading has started
markStarted_absent(sec) == sec

\* section.startedReading = true
markStarted(sec) == [sec EXCEPT !.startedReading = TRUE]

\* a Read that passes the caller's whole buffer to the stream
ReadLimit_absent(plen, remaining) == plen

\* if len(p) > section.bytesRemaining { p = p[0:section.bytesRemaining] }
ReadLimit(plen, remaining) == Min(plen, remaining)

\* The part of frameSection.Read after init: raw.Read returned n bytes.
\* deliver is FALSE when the reader is io.Copy(ioutil.Discard, section).
readBytes(c, s, n, deliver) ==
    IF c.blk THEN c
    ELSE LET f1 == [c.f EXCEPT ![s] = markStarted(@)]
             f2 == [f1 EXCEPT !.bytesRemaining = @ - n,
                              ![s].bytesRemaining = @ - n,
                              !.viaSection = @ + n,
                              !.got[s] = IF deliver THEN AddChunk(@, c.pos, n)
                                         ELSE @]
         IN  checkDone([c EXCEPT !.f = f2, !.pos = @ + n])

\* frameSection.discard on the header section.  io.Copy reads the section
\* to its end through Read (which already counts the bytes down), then the
\* bytes copied are subtracted from both counters once more.  split says
\* whether one of io.Copy's reads ends exactly where the frame counter
\* reaches zero before the section's end.  On a closed stream that ends
\* before the section does, io.Copy gets the m bytes that are left, then a
\* Read that returns (0, io.EOF), and returns m and no error.
discard(c, split) ==
    LET h0 == c.f.header.bytesRemaining
        f0 == c.f.bytesRemaining
        m  == Min(h0, Written - c.pos)
    IN  IF h0 > 0
        THEN LET k1 == IF split /\ 0 < f0 /\ f0 < m THEN f0 ELSE m
                 c1 == IF k1 > 0 THEN readBytes(c, "header", k1, FALSE) ELSE c
                 c2 == IF k1 < m THEN readBytes(c1, "header", m - k1, FALSE)
                       ELSE c1
                 ce == IF m < h0 THEN readBytes(c2, "header", 0, FALSE) ELSE c2
                 c3 == IF ce.blk THEN ce
                       ELSE [ce EXCEPT !.f.bytesRemaining = @ - m,
                                       !.f.header.bytesRemaining = @ - m]
             IN  checkDone(c3)
        ELSE checkDone(c)

\* frame.body = &frameSection{frame: frame, init: frame.header.discard}
bodyInit(c, split) == discard(c, split)

\* io.CopyN(dst, src, n): the number of bytes copied; nothing for n <= 0.
CopyN(n) == IF n > 0 THEN n ELSE 0

\* int64(frame.headerLength+frame.bodyLength): the sum is a uint16
CopyToCount(f) == ToUint16(f.headerLength + f.bodyLength)

\* int64(frame.header.bytesRemaining+frame.body.bytesRemaining)
DiscardCount(f) == f.header.bytesRemaining + f.body.bytesRemaining

\* ------------------------------------------------------------------------
\* Calls on a Framed and its Frames (framed.go).  All calls on the reading
\* side are made by one goroutine; the peer writes whole frames.
\* ------------------------------------------------------------------------
Handles == DOMAIN frames

CanCall == caller = "running" /\ nops < MaxOps

Returned(op, i, s, n, err) ==
    [op |-> op, h |-> i, s |-> s, n |-> n, err |-> err]

\* frames after a call on frame i that left it as fi and consumed
\* `consumed` bytes of the stream: the other frames did not get those bytes.
Touch(i, fi, consumed) ==
    [j \in DOMAIN frames |->
        IF j = i THEN fi
        ELSE [frames[j] EXCEPT !.intact = @ /\ consumed = 0]]

\* a byte slice passed to WriteFrame: nil, or of one of the lengths
Slices(lens) == {[nil |-> TRUE, len |-> 0]} \cup {[nil |-> FALSE, len |-> n] : n \in lens}

\* Framed.WriteFrame(header, body)
WriteFrame(header, body) ==
    /\ ~closed
    /\ Len(sent) < MaxSent
    /\ LET headerLength == IF ~header.nil THEN header.len ELSE 0
           bodyLength   == IF ~body.nil THEN body.len ELSE 0
       IN  sent' = Append(sent,
                     [ headerLength |-> ToUint16(headerLength),
                       bodyLength   |-> ToUint16(bodyLength),
                       header       |-> IF ~header.nil THEN header.len ELSE 0,
                       body         |-> IF ~body.nil THEN body.len ELSE 0,
                       writes       |-> FrameWrites(ToUint16(headerLength),
                                                    ToUint16(bodyLength),
                                                    header, body) ])
    /\ UNCHANGED <<rpos, hasReadInitial, frames, out, caller, last, nops>>
    /\ UNCHANGED <<rwVars, auxVars>>

\* a ReadInitial that does not record that the initial frame was read
InitialRead_absent == FALSE

\* framed.hasReadInitial = true
InitialRead == TRUE

\* Framed.ReadInitial()
ReadInitial ==
    /\ CanCall
    /\ nops' = nops + 1
    /\ IF hasReadInitial
       THEN /\ last' = Returned("ReadInitial", 0, "", 0, "AlreadyRead")
            /\ UNCHANGED <<rpos, hasReadInitial, frames>>
       ELSE /\ hasReadInitial' = InitialRead
            /\ IF Avail >= PrefixLength
               THEN /\ Len(frames) < MaxHandles
                    /\ frames' = Append(Touch(0, <<>>, PrefixLength),
                                        nextFrame(rpos, 0))
                    /\ rpos' = rpos + PrefixLength
                    /\ last' = Returned("ReadInitial", Len(frames) + 1, "",
                                        PrefixLength, "nil")
               ELSE \* the stream ends in readLengths: the frame that comes
                    \* with the error is not used
                    /\ closed
                    /\ frames' = Touch(0, <<>>, Avail)
                    /\ rpos' = rpos + Avail
                    /\ last' = Returned("ReadInitial", 0, "", Avail,
                                        readLengthsError(Avail))
    /\ UNCHANGED <<sent, out, caller>>
    /\ UNCHANGED <<rwVars, auxVars>>

\* Frame.Next(): receive from doneReading, then nextFrame
FrameNext(i) ==
    /\ CanCall
    /\ i \in Handles
    /\ frames[i].doneReading > 0
    /\ nops' = nops + 1
    /\ LET fi == [frames[i] EXCEPT !.doneReading = @ - 1,
                                   !.nexts = @ + 1,
                                   !.intact = FALSE]
       IN  IF Avail >= PrefixLength
           THEN /\ Len(frames) < MaxHandles
                /\ frames' = Append(Touch(i, fi, PrefixLength), nextFrame(rpos, i))
                /\ rpos' = rpos + PrefixLength
                /\ last' = Returned("Next", i, "", PrefixLength, "nil")
           ELSE \* the stream ends in readLengths
                /\ closed
                /\ frames' = Touch(i, fi, Avail)
                /\ rpos' = rpos + Avail
                /\ last' = Returned("Next", i, "", Avail, readLengthsError(Avail))
    /\ UNCHANGED <<sent, hasReadInitial, out, caller>>
    /\ UNCHANGED <<rwVars, auxVars>>

\* The effect of a call that worked on frame i and ended in state c.
Finish(i, c, op, s, err) ==
    /\ frames' = Touch(i, c.f, c.pos - rpos)
    /\ rpos' = c.pos
    /\ caller' = IF c.blk THEN "blockedSend" ELSE caller
    /\ last' = Returned(op, i, s, c.pos - rpos, IF c.blk THEN "never" ELSE err)

\* frameSection.Read(p) on frame.Header() or frame.Body(), len(p) = plen
SectionRead(i, s, plen, split) ==
    /\ CanCall
    /\ i \in Handles
    /\ nops' = nops + 1
    /\ s = "header" => ~split
    /\ LET f == frames[i]
       IN  IF f[s].bytesRemaining = 0
           THEN \* return 0, err: err is still nil
                /\ ~split
                /\ last' = Returned("Read", i, s, 0, "nil")
                /\ UNCHANGED <<rpos, frames, caller>>
           ELSE /\ (s = "body" /\ f.header.bytesRemaining > 0)
                       => (closed \/ Avail >= f.header.bytesRemaining)
                /\ LET c1  == IF s = "body" THEN bodyInit(Ctx(f, rpos), split)
                              ELSE Ctx(f, rpos)
                       rem == c1.f[s].bytesRemaining
                       lim == ReadLimit(plen, rem)
                   IN  IF c1.blk
                       THEN Finish(i, c1, "Read", s, "never")
                       ELSE IF plen > rem /\ rem < 0
                       THEN \* p[0:section.bytesRemaining] with a negative bound
                            /\ frames' = Touch(i, [c1.f EXCEPT ![s] = markStarted(@)],
                                               c1.pos - rpos)
                            /\ rpos' = c1.pos
                            /\ caller' = "panic"
                            /\ last' = Returned("Read", i, s, c1.pos - rpos, "panic")
                       ELSE IF closed /\ Written = c1.pos
                       THEN \* raw.Read returns (0, io.EOF)
                            Finish(i, readBytes(c1, s, 0, TRUE), "Read", s, "EOF")
                       ELSE \E n \in {1, Min(lim, Written - c1.pos)} :
                              /\ n >= 1
                              /\ n <= lim
                              /\ n <= Written - c1.pos
                              /\ LET c2 == readBytes(c1, s, n, TRUE)
                                 IN  Finish(i, c2, "Read", s,
                                            IF c2.f[s].bytesRemaining = 0
                                            THEN "EOF" ELSE "nil")
    /\ UNCHANGED <<sent, hasReadInitial, out>>
    /\ UNCHANGED <<rwVars, auxVars>>

\* the bytes io.CopyN(dst, framed.raw, want) moves: all of them, waiting for
\* them on an open stream; on a closed stream those that are left, and then
\* the error is io.EOF
Copied(want) == IF closed THEN Min(want, Avail) ELSE want

\* Frame.Discard()
Discard(i) ==
    /\ CanCall
    /\ i \in Handles
    /\ nops' = nops + 1
    /\ LET f    == frames[i]
           want == CopyN(DiscardCount(f))
           n    == Copied(want)
       IN  /\ Avail >= n
           /\ Finish(i, checkDone([f   |-> [f EXCEPT !.bytesRemaining = @ - n,
                                                     !.intact = FALSE],
                                   pos |-> rpos + n,
                                   blk |-> FALSE]),
                     "Discard", "", IF n < want THEN "EOF" ELSE "nil")
    /\ UNCHANGED <<sent, hasReadInitial, out>>
    /\ UNCHANGED <<rwVars, auxVars>>

\* writeHeaderTo(out, headerLength, bodyLength)
writeHeaderTo(o, headerLength, bodyLength) ==
    Append(o, [k |-> "lengths", a |-> headerLength, b |-> bodyLength])

\* the bytes io.CopyN moves from the stream to the destination
copyBytes(o, from, n) ==
    IF n = 0 THEN o ELSE Append(o, [k |-> "bytes", a |-> from, b |-> from + n])

\* Frame.CopyTo(out)
CopyTo(i) ==
    /\ CanCall
    /\ i \in Handles
    /\ nops' = nops + 1
    /\ LET f == frames[i]
       IN  IF f.header.startedReading \/ f.body.startedReading
           THEN /\ last' = Returned("CopyTo", i, "", 0, "AlreadyRead")
                /\ UNCHANGED <<rpos, frames, caller, out>>
           ELSE LET want == CopyN(CopyToCount(f))
                    n    == Copied(want)
                IN  /\ Avail >= n
                    /\ out' = copyBytes(writeHeaderTo(out, f.headerLength, f.bodyLength),
                                        rpos, n)
                    /\ Finish(i, checkDone([f   |-> [f EXCEPT !.bytesRemaining = @ - n,
                                                              !.copies = @ + 1,
                                                              !.intact = FALSE],
                                            pos |-> rpos + n,
                                            blk |-> FALSE]),
                              "CopyTo", "", IF n < want THEN "EOF" ELSE "nil")
    /\ UNCHANGED <<sent, hasReadInitial>>
    /\ UNCHANGED <<rwVars, auxVars>>

NoCall == Returned("", 0, "", 0, "")

InitFramed ==
    /\ sent = <<>>
    /\ rpos = 0
    /\ hasReadInitial = FALSE
    /\ frames = <<>>
    /\ out = <<>>
    /\ caller = "running"
    /\ last = NoCall
    /\ nops = 0

InitRWIdle ==
    /\ bigFrames = FALSE
    /\ pipe = FALSE
    /\ pend = 0
    /\ msgLen = 0
    /\ wire = <<>>
    /\ hist = <<>>
    /\ wmutex = 0
    /\ rmutex = 0
    /\ wtask = <<>>
    /\ rtask = <<>>

\* no frame-writing call was made yet
NoWrite == [op |-> "", args |-> <<>>, pc |-> "idle", i |-> 0, err |-> "",
            prefixFailed |-> FALSE, calls |-> 0]

\* no buffer pool was created
NoPool == [width |-> 0, size |-> 0, free |-> {}, leased |-> {},
           last |-> [op |-> "", buf |-> 0, free |-> {}]]

InitAux ==
    /\ closed = FALSE
    /\ wcall = NoWrite
    /\ pool = NoPool
    /\ pframes = <<>>

Init == InitFramed /\ InitRWIdle /\ InitAux

Next ==
    \/ \E header \in Slices(HeaderLens), body \in Slices(BodyLens) :
           WriteFrame(header, body)
    \/ ReadInitial
    \/ \E i \in Handles : FrameNext(i)
    \/ \E i \in Handles, s \in Sections, plen \in ReadSizes, split \in BOOLEAN :
           SectionRead(i, s, plen, split)
    \/ \E i \in Handles : Discard(i)
    \/ \E i \in Handles : CopyTo(i)

Spec == Init /\ [][Next]_vars

\* ------------------------------------------------------------------------
\* The end of the stream under a Framed.  The peer closes its end, possibly
\* when only the first bytes of a frame have gone out; the reading side
\* then finds io.EOF behind the last byte.
\* ------------------------------------------------------------------------
\* the first k bytes of the writes ws
RECURSIVE TakeWrites(_, _)
TakeWrites(ws, k) ==
    IF k = 0 \/ ws = <<>> THEN <<>>
    ELSE IF Head(ws).n <= k
         THEN << Head(ws) >> \o TakeWrites(Tail(ws), k - Head(ws).n)
         ELSE << [Head(ws) EXCEPT !.n = k] >>

\* numbers of bytes of a last frame ("HI", "BYE") that reach the stream
\* before it is closed: none, a part of the length prefix, a part of the
\* header
Cuts == {0, 1, 2, 3, 5}

\* lengths of the slices passed to WriteFrame before the stream is closed
EndHeaderLens == {2}
EndBodyLens   == {3}

\* framed.Close() on the peer's side: raw.Close()
CloseStream(cut) ==
    /\ ~closed
    /\ closed' = TRUE
    /\ IF cut = 0
       THEN sent' = sent
       ELSE /\ Len(sent) < MaxSent
            /\ sent' = Append(sent,
                     [ headerLength |-> Len(HeaderText),
                       bodyLength   |-> Len(BodyText),
                       header       |-> Len(HeaderText),
                       body         |-> Len(BodyText),
                       writes       |-> TakeWrites(
                                          FrameWrites(Len(HeaderText), Len(BodyText),
                                              [nil |-> FALSE, len |-> Len(HeaderText)],
                                              [nil |-> FALSE, len |-> Len(BodyText)]),
                                          cut) ])
    /\ UNCHANGED <<rpos, hasReadInitial, frames, out, caller, last, nops>>
    /\ UNCHANGED <<rwVars, wcall, pool, pframes>>

NextEOF ==
    \/ \E header \in Slices(EndHeaderLens), body \in Slices(EndBodyLens) :
           WriteFrame(header, body)
    \/ \E cut \in Cuts : CloseStream(cut)
    \/ ReadInitial
    \/ \E i \in Handles : FrameNext(i)
    \/ \E i \in Handles, s \in Sections, plen \in ReadSizes, split \in BOOLEAN :
           SectionRead(i, s, plen, split)
    \/ \E i \in Handles : Discard(i)
    \/ \E i \in Handles : CopyTo(i)

SpecEOF == Init /\ [][NextEOF]_vars

\* ------------------------------------------------------------------------
\* The forwarding loop of the benchmark server: ReadInitial, then
\* frame.CopyTo(conn) and frame.Next() in turn, until one of them fails.
\* The client writes frames to the connection meanwhile.
\* ------------------------------------------------------------------------
\* f.ReadInitial()
ServerReadInitial ==
    /\ last = NoCall
    /\ ReadInitial

\* frame.CopyTo(conn) on the frame the server got last
ServerCopyTo ==
    /\ last.op \in {"ReadInitial", "Next"}
    /\ last.err = "nil"
    /\ CopyTo(Len(frames))

\* frame, err = frame.Next()
ServerNext ==
    /\ last.op = "CopyTo"
    /\ last.err = "nil"
    /\ FrameNext(last.h)

NextForward ==
    \/ \E header \in Slices(HeaderLens), body \in Slices(BodyLens) :
           WriteFrame(header, body)
    \/ ServerReadInitial
    \/ ServerCopyTo
    \/ ServerNext

SpecForward == Init /\ [][NextForward]_vars

\* ------------------------------------------------------------------------
\* What was written, for comparison with what is read
\* ------------------------------------------------------------------------
\* the frame handle f was decoded at the first byte of a written frame
Aligned(f) == \E k \in 1..Len(sent) : f.start = StartOf(k)

SentIndex(f) == CHOOSE k \in 1..Len(sent) : f.start = StartOf(k)

\* stream offsets of the payload of the frame f was decoded from
HeaderStart(f) == f.start + PrefixLength
BodyStart(f)   == HeaderStart(f) + f.headerLength
PayloadEnd(f)  == BodyStart(f) + f.bodyLength

\* the n bytes from offset `from`, as a delivered chunk sequence
Whole(from, n) == IF n = 0 THEN <<>> ELSE << <<from, from + n>> >>

\* some leading part of those n bytes
IsPrefixOf(got, from, n) ==
    \/ got = <<>>
    \/ /\ Len(got) = 1
       /\ got[1][1] = from
       /\ got[1][2] <= from + n

Counters(f) == << f.bytesRemaining, f.header.bytesRemaining, f.body.bytesRemaining,
                  f.header.startedReading, f.body.startedReading,
                  f.doneReading, f.got >>

\* the step is a call on the reading side
IsCall(op) == nops' = nops + 1 /\ last'.op = op

\* ------------------------------------------------------------------------
\* Claims about the header/body Framed
\* ------------------------------------------------------------------------

\* C3: Frame.Next() never returns, and the next length prefix is never
\* decoded, while a payload byte of the frame is still unread on the stream.
C3_NextWaitsForDrain ==
    [][\A i \in Handles :
          (IsCall("Next") /\ last'.h = i) => rpos >= PayloadEnd(frames[i])]_vars

\* C4: round trip.  A frame written by WriteFrame(H, B) and read through its
\* Header section and then its Body section reports the lengths of H and B
\* and delivers exactly the bytes of H and exactly the bytes of B.
C4_RoundTrip ==
    \A i \in Handles :
        LET f == frames[i]
        IN  (f.intact /\ Aligned(f)) =>
               /\ f.headerLength = sent[SentIndex(f)].header
               /\ f.bodyLength = sent[SentIndex(f)].body
               /\ IsPrefixOf(f.got.header, HeaderStart(f), f.headerLength)
               /\ f.header.bytesRemaining = 0 =>
                     /\ f.got.header = Whole(HeaderStart(f), f.headerLength)
                     /\ IsPrefixOf(f.got.body, BodyStart(f), f.bodyLength)
                     /\ f.body.bytesRemaining = 0 =>
                           f.got.body = Whole(BodyStart(f), f.bodyLength)

\* a frame with header and body of the greatest length, read in order to
\* the end of both sections
C4_Witness ==
    \E i \in Handles :
        LET f == frames[i]
        IN  /\ f.intact /\ Aligned(f)
            /\ f.headerLength = 65535 /\ f.bodyLength = 65535
            /\ f.header.bytesRemaining = 0 /\ f.body.bytesRemaining = 0
            /\ f.got.header = Whole(HeaderStart(f), 65535)
            /\ f.got.body = Whole(BodyStart(f), 65535)

\* C5: a Body read made before the Header section was read to its end first
\* consumes every remaining header byte, and the Body reads deliver exactly
\* the body bytes.
C5_BodyReadDrainsHeader ==
    [][\A i \in Handles :
          (/\ IsCall("Read") /\ last'.h = i /\ last'.s = "body"
           /\ frames[i].intact /\ Aligned(frames[i])
           /\ caller' = "running")
          => /\ rpos' >= BodyStart(frames[i])
             /\ IsPrefixOf(frames'[i].got.body, BodyStart(frames[i]),
                           frames[i].bodyLength)]_vars

\* C6: a Read on a section that was read to its end returns the
\* AlreadyRead error, consumes nothing and changes nothing of the frame.
C6_RereadIsAlreadyRead ==
    [][\A i \in Handles, s \in Sections :
          (/\ IsCall("Read") /\ last'.h = i /\ last'.s = s
           /\ frames[i][s].bytesRemaining = 0
           /\ frames[i].got[s] # <<>>)
          => /\ last'.err = "AlreadyRead"
             /\ rpos' = rpos
             /\ Counters(frames'[i]) = Counters(frames[i])]_vars

\* C7: CopyTo on a frame none of whose sections has started reading writes
\* the two length fields and then all headerLength+bodyLength payload bytes,
\* and consumes exactly those bytes from the source.
C7_CopyToForwardsWholeFrame ==
    [][\A i \in Handles :
          (/\ IsCall("CopyTo") /\ last'.h = i
           /\ frames[i].intact /\ Aligned(frames[i])
           /\ ~frames[i].header.startedReading
           /\ ~frames[i].body.startedReading)
          => LET f == frames[i]
                 n == f.headerLength + f.bodyLength
             IN  /\ rpos' = rpos + n
                 /\ out' = copyBytes(writeHeaderTo(out, sent[SentIndex(f)].header,
                                                   sent[SentIndex(f)].body),
                                     HeaderStart(f), n)]_vars

\* C8: once a byte of the frame was read through a section, CopyTo returns
\* AlreadyReadError, writes nothing, consumes nothing and leaves the
\* frame's counters as they were.
C8_CopyToAfterReadFails ==
    [][\A i \in Handles :
          (IsCall("CopyTo") /\ last'.h = i /\ frames[i].viaSection > 0)
          => /\ last'.err = "AlreadyRead"
             /\ out' = out
             /\ rpos' = rpos
             /\ Counters(frames'[i]) = Counters(frames[i])]_vars

\* CopyTo was refused on a frame whose header bytes were discarded by a
\* Body read, and on one whose header was read
C8_Witness ==
    /\ last.op = "CopyTo"
    /\ last.err = "AlreadyRead"
    /\ frames[last.h].viaSection > 0
    /\ frames[last.h].got.header = <<>>
    /\ frames[last.h].got.body # <<>>

\* C9: after CopyTo has forwarded a frame, no later Read or CopyTo on that
\* frame consumes a byte of the stream or writes to the destination.
C9_CopiedFrameIsSpent ==
    [][\A i \in Handles :
          (/\ nops' = nops + 1 /\ last'.h = i
           /\ last'.op \in {"Read", "CopyTo"}
           /\ frames[i].copies > 0)
          => (rpos' = rpos /\ out' = out)]_vars

\* C10: the completion signal of a frame is raised at most once and at most
\* one Next() on it returns.
C10_OneSuccessor ==
    \A i \in Handles : frames[i].signals <= 1 /\ frames[i].nexts <= 1

\* C21: ReadInitial yields the initial frame at most once per Framed: every
\* ReadInitial called after the initial frame was read returns
\* AlreadyReadError, hands out no frame and consumes no byte of the stream.
C21_InitialFrameOnce ==
    [][(IsCall("ReadInitial") /\ \E i \in Handles : frames[i].parent = 0)
          => /\ last'.err = "AlreadyRead"
             /\ frames' = frames
             /\ rpos' = rpos]_vars

\* ReadInitial was refused while a second frame was waiting on the stream
\* behind the drained initial frame
C21_Witness ==
    /\ last.op = "ReadInitial"
    /\ last.err = "AlreadyRead"
    /\ Len(frames) = 1
    /\ frames[1].parent = 0
    /\ rpos = PayloadEnd(frames[1])
    /\ Avail >= PrefixLength

\* C24: a loop that calls Read on a section until io.EOF ends, for every
\* section length including 0: every Read on a section whose bytes are on
\* the stream either consumes at least one byte of the stream or returns
\* io.EOF.  (Read is a function of the frame's counters and the stream: a
\* Read that returns without io.EOF and changes nothing returns the same
\* on every repetition.)
C24_ReadLoopEnds ==
    [][\A i \in Handles, s \in Sections :
          (/\ IsCall("Read") /\ last'.h = i /\ last'.s = s
           /\ caller' = "running")
          => \/ last'.err = "EOF"
             \/ rpos' > rpos]_vars

\* what the destination holds when the first m frames of the stream were
\* forwarded whole, in order
RECURSIVE ForwardedOut(_)
ForwardedOut(m) ==
    IF m = 0 THEN <<>>
    ELSE copyBytes(writeHeaderTo(ForwardedOut(m - 1), sent[m].header, sent[m].body),
                   StartOf(m) + PrefixLength, sent[m].header + sent[m].body)

\* C27: the forwarding loop (ReadInitial, then CopyTo and Next in turn)
\* writes to its destination the bytes of every frame it has copied, whole
\* and in order, and a CopyTo that returned nil has raised the completion
\* signal, so that the Next() that follows does not wait for it forever.
C27_ForwardingLoop ==
    /\ out = ForwardedOut(Cardinality({i \in Handles : frames[i].copies > 0}))
    /\ (last.op = "CopyTo" /\ last.err = "nil")
           => frames[last.h].doneReading > 0

\* C28: a frame whose header length and body length are both 0 counts as
\* drained as soon as it is decoded: its completion signal is raised without
\* a Discard or CopyTo, so that Next() on it returns the following frame.
C28_EmptyFrameIsDrained ==
    \A i \in Handles :
        (frames[i].headerLength = 0 /\ frames[i].bodyLength = 0)
            => frames[i].signals >= 1

\* C29: frame alignment.  Every length prefix is decoded at the first byte
\* behind the payload of the preceding frame (the initial one at the start
\* of the stream), so no payload byte is taken for a length prefix; and the
\* calls on a frame consume no byte behind its payload, so no byte of a
\* later frame is delivered or discarded as part of an earlier frame.
C29_FramesAligned ==
    /\ \A i \in Handles :
          LET f == frames[i]
          IN  /\ Aligned(f)
              /\ f.start = IF f.parent = 0 THEN 0 ELSE PayloadEnd(frames[f.parent])
              /\ \A s \in Sections : \A j \in 1..Len(f.got[s]) :
                    /\ HeaderStart(f) <= f.got[s][j][1]
                    /\ f.got[s][j][2] <= PayloadEnd(f)
    /\ frames # <<>> => rpos <= PayloadEnd(frames[Len(frames)])

\* C33: a frame's bytesRemaining is the number of its payload bytes not yet
\* taken from the stream: readLengths sets it to headerLength + bodyLength,
\* every section Read (with the header discard of a Body read), Discard
\* and CopyTo on the frame lowers it by exactly the bytes the call took
\* from the stream, and it is never negative.
C33_BytesRemainingIsUnconsumed ==
    [][/\ Len(frames') > Len(frames) =>
            LET f == frames'[Len(frames')]
            IN  f.bytesRemaining = f.headerLength + f.bodyLength
       /\ \A i \in Handles :
            (/\ nops' = nops + 1
             /\ last'.h = i
             /\ last'.op \in {"Read", "Discard", "CopyTo"})
            => /\ frames'[i].bytesRemaining
                     = frames[i].bytesRemaining - (rpos' - rpos)
               /\ frames'[i].bytesRemaining >= 0]_vars

\* C34: in every reachable state each section's bytesRemaining lies between
\* 0 and the declared length of the section, and the frame's bytesRemaining
\* is the sum of the two section counters: after section reads, after the
\* header discard of a Body read, after Discard and after CopyTo.
C34_SectionCountersAddUp ==
    \A i \in Handles :
       LET f == frames[i]
       IN  /\ 0 <= f.header.bytesRemaining
           /\ f.header.bytesRemaining <= f.headerLength
           /\ 0 <= f.body.bytesRemaining
           /\ f.body.bytesRemaining <= f.bodyLength
           /\ f.bytesRemaining = f.header.bytesRemaining + f.body.bytesRemaining

\* C30: only Next() waits on a frame's completion channel: no section
\* Read, Discard or CopyTo sends on the channel of capacity 1 while it holds
\* a signal that was not received, so none of them blocks in the send.
C30_NoBlockedSend ==
    /\ caller # "blockedSend"
    /\ \A i \in Handles : frames[i].doneReading <= ChanCap

\* the k-th frame on the stream lost its end when the stream was closed
Truncated(k) ==
    WireLength(sent[k]) < PrefixLength + sent[k].header + sent[k].body

\* the stream position is the first byte of a frame, or the end of a stream
\* that ends with a whole frame
AtFrameBoundary ==
    \/ \E k \in 1..Len(sent) : rpos = StartOf(k)
    \/ rpos = Written /\ (sent = <<>> \/ ~Truncated(Len(sent)))

\* C22: on a closed stream, ReadInitial and Next, called with the stream
\* at a frame boundary, return io.EOF exactly when no byte follows; a stream
\* that ends after 1, 2 or 3 bytes of the length prefix gives an error
\* other than io.EOF.
C22_EOFOnlyAtFrameEnd ==
    [][(/\ IsCall("ReadInitial") \/ IsCall("Next")
        /\ last'.err # "AlreadyRead"
        /\ closed
        /\ AtFrameBoundary)
          => (last'.err = "EOF" <=> Avail = 0)]_vars

\* ------------------------------------------------------------------------
\* Reader and Writer over one shared stream (simple frames: a 2-byte length
\* and the payload).  The stream is a blocking byte stream; its content is
\* kept as runs of bytes: n bytes from offset off of the length prefix that
\* encodes v, or of the test message.
\* ------------------------------------------------------------------------
\* the greatest length the 2-byte prefix can encode
MAX_FRAME_SIZE == 65535

\* len(testMessage) in the tests
MsgLens == {0, 3, MAX_FRAME_SIZE}

Tasks == 1..NTasks

\* byte o of the test message: random data
MsgByte(o) == (7 * o + 3) % 256

PfxRun(v) == [t |-> "pfx", v |-> v, off |-> 0, n |-> 2]

MsgRun(off, n) == [t |-> "msg", v |-> 0, off |-> off, n |-> n]

RECURSIVE RunsLen(_)
RunsLen(rs) == IF rs = <<>> THEN 0 ELSE Head(rs).n + RunsLen(Tail(rs))

\* the first k bytes of rs
RECURSIVE TakeRuns(_, _)
TakeRuns(rs, k) ==
    IF k = 0 THEN <<>>
    ELSE IF Head(rs).n <= k
         THEN << Head(rs) >> \o TakeRuns(Tail(rs), k - Head(rs).n)
         ELSE << [Head(rs) EXCEPT !.n = k] >>

\* rs without its first k bytes
RECURSIVE DropRuns(_, _)
DropRuns(rs, k) ==
    IF k = 0 THEN rs
    ELSE IF Head(rs).n <= k
         THEN DropRuns(Tail(rs), k - Head(rs).n)
         ELSE << [Head(rs) EXCEPT !.off = @ + k, !.n = @ - k] >> \o Tail(rs)

\* the values of the bytes of a run
RunBytes(r) ==
    [j \in 1..r.n |-> IF r.t = "pfx" THEN PutUint16(r.v)[r.off + j]
                      ELSE MsgByte(r.off + j - 1)]

RECURSIVE RunsBytes(_)
RunsBytes(rs) == IF rs = <<>> THEN <<>>
                 ELSE RunBytes(Head(rs)) \o RunsBytes(Tail(rs))

\* bytes copied into a buffer after those already there; runs that continue
\* one another are one run
RECURSIVE AddRuns(_, _)
AddRuns(got, rs) ==
    IF rs = <<>> THEN got
    ELSE LET r == Head(rs)
             l == IF got = <<>> THEN r ELSE got[Len(got)]
         IN  IF r.n = 0 THEN AddRuns(got, Tail(rs))
             ELSE IF got # <<>> /\ l.t = r.t /\ l.v = r.v /\ l.off + l.n = r.off
             THEN AddRuns([got EXCEPT ![Len(got)].n = @ + r.n], Tail(rs))
             ELSE AddRuns(Append(got, r), Tail(rs))

\* Stream.Write(b): the stream takes all of b at once.  On an io.Pipe one
\* Write is in progress at a time, and it lasts until the reading side has
\* taken all of b (for an empty b: until one Read has met it).
StreamWrite(w, rs) ==
    LET nz == SelectSeq(rs, LAMBDA r : r.n > 0)
    IN  /\ ~closed
        /\ pipe => pend = 0
        /\ wire' = wire \o nz
        /\ hist' = hist \o [j \in 1..Len(nz) |->
                              [w |-> w, t |-> nz[j].t, v |-> nz[j].v,
                               off |-> nz[j].off, n |-> nz[j].n]]
        /\ pend' = IF pipe THEN w ELSE 0

\* Stream.Read(p) returned k bytes: they leave the stream, and a Write on
\* an io.Pipe ends when its last byte has been read
StreamRead(k) ==
    /\ wire' = DropRuns(wire, k)
    /\ pend' = IF DropRuns(wire, k) = <<>> THEN 0 ELSE pend

\* the numbers of bytes one Stream.Read(p) with len(p) = want can return:
\* at least one byte, at most what is there; short is whether the task may
\* still be given less than it could get
ReadCounts(want, short) ==
    LET most == Min(want, RunsLen(wire))
    IN  IF most < 1 THEN {}
        ELSE IF short /\ ~pipe THEN {1, most} ELSE {most}

\* a Writer that does not take its mutex
WriterLock_absent(w) == wmutex' = wmutex

\* framed.mutex.Lock() in Write and WritePieces, and the deferred Unlock()
WriterLock(w) == wmutex = 0 /\ wmutex' = w

WriterUnlock(w) == wmutex' = 0

\* a Reader that does not take its mutex
ReaderLock_absent(r) == rmutex' = rmutex

\* framed.mutex.Lock() in Read, and the deferred Unlock()
ReaderLock(r) == rmutex = 0 /\ rmutex' = r

\* a Read whose Unlock is not deferred and does not run
ReaderUnlock_held(r) == rmutex' = rmutex

\* defer framed.mutex.Unlock() in Read: runs on every return
ReaderUnlock(r) == rmutex' = 0

WriterKinds == {"Write", "WritePieces", "WriteAtomic"}
ReaderKinds == {"Read", "ReadFrame"}

\* off: the bytes of the message already sent as chunks (big frames)
IdleWriter == [pc |-> "idle", kind |-> "", piece |-> 0, off |-> 0, n |-> 0,
               err |-> ""]

\* used: the bytes the call has taken from the stream
IdleReader == [pc |-> "idle", kind |-> "", buf |-> 0, pfx |-> <<>>, want |-> 0,
               got |-> <<>>, short |-> 0, used |-> 0, more |-> FALSE, n |-> 0,
               err |-> ""]

\* pieces of the test message passed to WritePieces: cut in the middle
Cutoff == msgLen \div 2

Pieces == << MsgRun(0, Cutoff), MsgRun(Cutoff, msgLen - Cutoff) >>

\* Writer.Write / WritePieces / WriteAtomic is called: the mutex is taken
WriteCall(w, kind) ==
    /\ wtask[w].pc = "idle"
    /\ WriterLock(w)
    /\ wtask' = [wtask EXCEPT ![w] = [IdleWriter EXCEPT
                     !.pc = IF bigFrames THEN "chunkPrefix"
                            ELSE IF kind = "WriteAtomic" THEN "atomic"
                            ELSE "prefix",
                     !.kind = kind,
                     !.n = msgLen]]
    /\ UNCHANGED <<bigFrames, pipe, pend, msgLen, wire, hist, rmutex, rtask>>
    /\ UNCHANGED <<framedVars, auxVars>>

\* binary.Write(framed.Stream, endianness, uint16(n))
WritePrefix(w) ==
    /\ wtask[w].pc = "prefix"
    /\ StreamWrite(w, << PfxRun(ToUint16(wtask[w].n)) >>)
    /\ wtask' = [wtask EXCEPT ![w].pc = IF wtask[w].kind = "Write" THEN "data"
                                        ELSE "pieces",
                              ![w].piece = IF wtask[w].kind = "Write" THEN 0 ELSE 1]
    /\ UNCHANGED <<bigFrames, pipe, msgLen, wmutex, rmutex, rtask>>
    /\ UNCHANGED <<framedVars, auxVars>>

\* return n, nil and the deferred Unlock
WriteReturned(w) ==
    /\ WriterUnlock(w)
    /\ wtask' = [wtask EXCEPT ![w].pc = "done", ![w].err = "nil", ![w].piece = 0,
                              ![w].off = 0]

\* the last Stream.Write of a call was issued: the call returns when that
\* Write returns, which on an io.Pipe is when the reading side has taken it
AfterLastWrite(w) ==
    IF pipe
    THEN /\ wtask' = [wtask EXCEPT ![w].pc = "ret"]
         /\ UNCHANGED wmutex
    ELSE WriteReturned(w)

\* the last Stream.Write of a call on an io.Pipe returns, and so does the call
WriteReturn(w) ==
    /\ wtask[w].pc = "ret"
    /\ pend # w
    /\ WriteReturned(w)
    /\ UNCHANGED <<bigFrames, pipe, pend, msgLen, wire, hist, rmutex, rtask>>
    /\ UNCHANGED <<framedVars, auxVars>>

\* Writer.Write: framed.Stream.Write(frame), then return
WriteData(w) ==
    /\ wtask[w].pc = "data"
    /\ StreamWrite(w, << MsgRun(0, msgLen) >>)
    /\ AfterLastWrite(w)
    /\ UNCHANGED <<bigFrames, pipe, msgLen, rmutex, rtask>>
    /\ UNCHANGED <<framedVars, auxVars>>

\* Writer.WritePieces: framed.Stream.Write(piece) for the next piece, and
\* return after the last one
WritePiece(w) ==
    /\ wtask[w].pc = "pieces"
    /\ StreamWrite(w, << Pieces[wtask[w].piece] >>)
    /\ IF wtask[w].piece = Len(Pieces)
       THEN AfterLastWrite(w)
       ELSE /\ wtask' = [wtask EXCEPT ![w].piece = @ + 1]
            /\ UNCHANGED wmutex
    /\ UNCHANGED <<bigFrames, pipe, msgLen, rmutex, rtask>>
    /\ UNCHANGED <<framedVars, auxVars>>

\* Writer.WriteAtomic: the length is put in front of the payload in the
\* slice and both go to the stream in one Write
WriteAtomic(w) ==
    /\ wtask[w].pc = "atomic"
    /\ StreamWrite(w, << PfxRun(ToUint16(wtask[w].n)), MsgRun(0, msgLen) >>)
    /\ AfterLastWrite(w)
    /\ UNCHANGED <<bigFrames, pipe, msgLen, rmutex, rtask>>
    /\ UNCHANGED <<framedVars, auxVars>>

\* Reader.Read(buffer) / Reader.ReadFrame() is called: the mutex is taken
ReadCall(r, kind, buf) ==
    /\ rtask[r].pc = "idle"
    /\ kind = "ReadFrame" => buf = msgLen
    /\ ReaderLock(r)
    /\ rtask' = [rtask EXCEPT ![r] = [IdleReader EXCEPT
                     !.pc = IF bigFrames THEN "chunkPrefix" ELSE "prefix",
                     !.kind = kind,
                     !.buf = IF kind = "Read" THEN buf ELSE 0,
                     !.want = 2]]
    /\ UNCHANGED <<bigFrames, pipe, pend, msgLen, wire, hist, wmutex, wtask>>
    /\ UNCHANGED <<framedVars, auxVars>>

\* the reader returns n, err and what it put in the buffer, and the
\* deferred Unlock runs; the locals of the call are gone
ReadReturn(r, t, n, err) ==
    /\ ReaderUnlock(r)
    /\ rtask' = [rtask EXCEPT ![r] = [IdleReader EXCEPT !.pc = "done",
                                                        !.kind = t.kind,
                                                        !.got = t.got,
                                                        !.used = t.used,
                                                        !.n = n,
                                                        !.err = err]]

\* a Read that takes every frame for one that fits
TooSmall_absent(n, bufferSize) == FALSE

\* if n > bufferSize { return 0, fmt.Errorf("Buffer of size ...") }
TooSmall(n, bufferSize) == n > bufferSize

\* binary.Read(framed.Stream, endianness, &nb): one Stream.Read of the
\* bytes of the prefix still missing; with both bytes there, the length is
\* decoded and checked against the buffer
ReadPrefix(r) ==
    /\ rtask[r].pc = "prefix"
    /\ \E k \in ReadCounts(2 - Len(rtask[r].pfx), rtask[r].short < MaxPartial) :
       /\ StreamRead(k)
       /\ LET pfx == rtask[r].pfx \o RunsBytes(TakeRuns(wire, k))
              t   == [rtask[r] EXCEPT !.pfx = pfx,
                                      !.used = @ + k,
                                      !.short = IF k < Min(2 - Len(rtask[r].pfx), RunsLen(wire))
                                                THEN @ + 1 ELSE @]
              n   == GetUint16(pfx)
          IN  IF Len(pfx) < 2
              THEN /\ rtask' = [rtask EXCEPT ![r] = t]
                   /\ UNCHANGED rmutex
              ELSE IF t.kind = "Read" /\ TooSmall(n, t.buf)
              THEN ReadReturn(r, t, 0, "BufferTooSmall")
              ELSE IF n = 0
              THEN ReadReturn(r, t, 0, "nil")
              ELSE /\ rtask' = [rtask EXCEPT ![r] = [t EXCEPT !.pc = "payload",
                                                              !.want = n]]
                   /\ UNCHANGED rmutex
    /\ UNCHANGED <<bigFrames, pipe, msgLen, hist, wmutex, wtask>>
    /\ UNCHANGED <<framedVars, auxVars>>

\* io.ReadFull(framed.Stream, buffer[:n]): one Stream.Read of the bytes
\* still missing; with all n bytes there the call returns
ReadPayload(r) ==
    /\ rtask[r].pc = "payload"
    /\ LET have == RunsLen(rtask[r].got)
           want == rtask[r].want - have
       IN  \E k \in ReadCounts(want, rtask[r].short < MaxPartial) :
             /\ StreamRead(k)
             /\ LET t == [rtask[r] EXCEPT
                             !.got = AddRuns(@, TakeRuns(wire, k)),
                             !.used = @ + k,
                             !.short = IF k < Min(want, RunsLen(wire))
                                       THEN @ + 1 ELSE @]
                IN  IF k = want
                    THEN ReadReturn(r, t, t.want, "nil")
                    ELSE /\ rtask' = [rtask EXCEPT ![r] = t]
                         /\ UNCHANGED rmutex
    /\ UNCHANGED <<bigFrames, pipe, msgLen, hist, wmutex, wtask>>
    /\ UNCHANGED <<framedVars, auxVars>>

\* a Writer and a Reader on one stream, and the tasks that will call them
InitStream(big, isPipe, lens) ==
    /\ InitFramed
    /\ InitAux
    /\ bigFrames = big
    /\ pipe = isPipe
    /\ pend = 0
    /\ msgLen \in lens
    /\ wire = <<>>
    /\ hist = <<>>
    /\ wmutex = 0
    /\ rmutex = 0
    /\ wtask = [w \in Tasks |-> IdleWriter]
    /\ rtask = [r \in Tasks |-> IdleReader]

\* len(buffer) of the buffers passed to Reader.Read: len(testMessage), or more
BufSizes == {msgLen, msgLen + 1}

\* ------------------------------------------------------------------------
\* Big frames: a message is sent as a chain of chunks.  The top bit of the
\* 2-byte prefix of a chunk says that another chunk follows, the other 15
\* bits are the length of the chunk.
\* ------------------------------------------------------------------------
ChunkLimit == 32767

ContinuationFlag == 32768

\* the prefix of a chunk of len bytes
ChunkPrefix(len, more) == len + (IF more THEN ContinuationFlag ELSE 0)

\* the length a chunk prefix declares
ChunkLength(v) == v % ContinuationFlag

\* a Reader that never looks at the continuation flag
ChunkMore_absent(v) == FALSE

\* the continuation flag of a chunk prefix
ChunkMore(v) == v >= ContinuationFlag

\* a Writer that sends the rest of the message as one chunk
ChunkLen_whole(n, off) == n - off

\* the length of the chunk that starts at byte off of a message of n bytes
ChunkLen(n, off) == Min(n - off, ChunkLimit)

\* the Writer sends the prefix of the next chunk of the message
WriteChunkPrefix(w) ==
    /\ wtask[w].pc = "chunkPrefix"
    /\ LET len  == ChunkLen(wtask[w].n, wtask[w].off)
           more == wtask[w].off + len < wtask[w].n
       IN  StreamWrite(w, << PfxRun(ToUint16(ChunkPrefix(len, more))) >>)
    /\ wtask' = [wtask EXCEPT ![w].pc = "chunkData"]
    /\ UNCHANGED <<bigFrames, pipe, msgLen, wmutex, rmutex, rtask>>
    /\ UNCHANGED <<framedVars, auxVars>>

\* the Writer sends the bytes of the chunk, and goes on to the next chunk
\* or returns after the last one
WriteChunkData(w) ==
    /\ wtask[w].pc = "chunkData"
    /\ LET len == ChunkLen(wtask[w].n, wtask[w].off)
       IN  /\ StreamWrite(w, << MsgRun(wtask[w].off, len) >>)
           /\ IF wtask[w].off + len < wtask[w].n
              THEN /\ wtask' = [wtask EXCEPT ![w].pc = "chunkPrefix",
                                             ![w].off = @ + len]
                   /\ UNCHANGED wmutex
              ELSE AfterLastWrite(w)
    /\ UNCHANGED <<bigFrames, pipe, msgLen, rmutex, rtask>>
    /\ UNCHANGED <<framedVars, auxVars>>

\* the Reader reads the prefix of the next chunk of the chain: one
\* Stream.Read of the bytes of the prefix still missing
ReadChunkPrefix(r) ==
    /\ rtask[r].pc = "chunkPrefix"
    /\ \E k \in ReadCounts(2 - Len(rtask[r].pfx), rtask[r].short < MaxPartial) :
       /\ StreamRead(k)
       /\ LET pfx  == rtask[r].pfx \o RunsBytes(TakeRuns(wire, k))
              t    == [rtask[r] EXCEPT !.pfx = pfx,
                                       !.used = @ + k,
                                       !.short = IF k < Min(2 - Len(rtask[r].pfx), RunsLen(wire))
                                                 THEN @ + 1 ELSE @]
              n    == ChunkLength(GetUint16(pfx))
              more == ChunkMore(GetUint16(pfx))
              have == RunsLen(t.got)
          IN  IF Len(pfx) < 2
              THEN /\ rtask' = [rtask EXCEPT ![r] = t]
                   /\ UNCHANGED rmutex
              ELSE IF t.kind = "Read" /\ TooSmall(have + n, t.buf)
              THEN ReadReturn(r, t, 0, "BufferTooSmall")
              ELSE IF n = 0 /\ ~more
              THEN ReadReturn(r, t, have, "nil")
              ELSE /\ rtask' = [rtask EXCEPT ![r] =
                                   [t EXCEPT !.pc = IF n = 0 THEN "chunkPrefix"
                                                    ELSE "chunkPayload",
                                             !.pfx = <<>>,
                                             !.want = have + n,
                                             !.more = more]]
                   /\ UNCHANGED rmutex
    /\ UNCHANGED <<bigFrames, pipe, msgLen, hist, wmutex, wtask>>
    /\ UNCHANGED <<framedVars, auxVars>>

\* the Reader appends the bytes of the chunk to the message: one
\* Stream.Read of the bytes still missing; after the last byte it goes on
\* to the next chunk while the flag is set, and returns when it is clear
ReadChunkPayload(r) ==
    /\ rtask[r].pc = "chunkPayload"
    /\ LET have == RunsLen(rtask[r].got)
           want == rtask[r].want - have
       IN  \E k \in ReadCounts(want, rtask[r].short < MaxPartial) :
             /\ StreamRead(k)
             /\ LET t == [rtask[r] EXCEPT
                             !.got = AddRuns(@, TakeRuns(wire, k)),
                             !.used = @ + k,
                             !.short = IF k < Min(want, RunsLen(wire))
                                       THEN @ + 1 ELSE @]
                IN  IF k < want
                    THEN /\ rtask' = [rtask EXCEPT ![r] = t]
                         /\ UNCHANGED rmutex
                    ELSE IF t.more
                    THEN /\ rtask' = [rtask EXCEPT ![r] = [t EXCEPT !.pc = "chunkPrefix"]]
                         /\ UNCHANGED rmutex
                    ELSE ReadReturn(r, t, t.want, "nil")
    /\ UNCHANGED <<bigFrames, pipe, msgLen, hist, wmutex, wtask>>
    /\ UNCHANGED <<framedVars, auxVars>>

\* the empty message, one that just fits one chunk, and the message of
\* MaxFrameLength + 1 bytes of TestBigFrames
BigMsgLens == {0, ChunkLimit, MAX_FRAME_SIZE + 1}

InitBig == InitStream(TRUE, FALSE, BigMsgLens)

NextBig ==
    \/ \E w \in Tasks, kind \in {"Write", "WritePieces"} : WriteCall(w, kind)
    \/ \E w \in Tasks : WriteChunkPrefix(w)
    \/ \E w \in Tasks : WriteChunkData(w)
    \/ \E r \in Tasks, kind \in ReaderKinds : ReadCall(r, kind, msgLen)
    \/ \E r \in Tasks : ReadChunkPrefix(r)
    \/ \E r \in Tasks : ReadChunkPayload(r)

SpecBig == InitBig /\ [][NextBig]_vars

InitRW == InitStream(FALSE, FALSE, MsgLens)

NextRW ==
    \/ \E w \in Tasks, kind \in WriterKinds : WriteCall(w, kind)
    \/ \E w \in Tasks : WritePrefix(w)
    \/ \E w \in Tasks : WriteData(w)
    \/ \E w \in Tasks : WritePiece(w)
    \/ \E w \in Tasks : WriteAtomic(w)
    \/ \E r \in Tasks, kind \in ReaderKinds, buf \in BufSizes : ReadCall(r, kind, buf)
    \/ \E r \in Tasks : ReadPrefix(r)
    \/ \E r \in Tasks : ReadPayload(r)

SpecRW == InitRW /\ [][NextRW]_vars

\* ------------------------------------------------------------------------
\* Reader and Writer over a stream whose writing end is closed while frames
\* are under way: what is in the stream can still be read, and behind it
\* a Read returns io.EOF; a Write fails.
\* ------------------------------------------------------------------------
\* len(testMessage) where the stream is closed early
EndMsgLens == {3, MAX_FRAME_SIZE}

\* p.Close() on the writing end of the stream
CloseRW ==
    /\ ~closed
    /\ closed' = TRUE
    /\ UNCHANGED <<rwVars, framedVars, wcall, pool, pframes>>

\* binary.Write or Stream.Write on the closed stream returns an error, and
\* Write / WritePieces return it
WriteFailed(w) ==
    /\ closed
    /\ wtask[w].pc \in {"prefix", "data", "pieces"}
    /\ WriterUnlock(w)
    /\ wtask' = [wtask EXCEPT ![w].pc = "done", ![w].err = "ErrClosedPipe",
                              ![w].piece = 0, ![w].off = 0]
    /\ UNCHANGED <<bigFrames, pipe, pend, msgLen, wire, hist, rmutex, rtask>>
    /\ UNCHANGED <<framedVars, auxVars>>

\* an io.ReadFull that reports a short read as a success
ReadFullError_nil(have) == "nil"

\* io.ReadFull at the end of the stream: io.EOF when it has read no byte,
\* io.ErrUnexpectedEOF when it has read some
ReadFullError(have) == IF have = 0 THEN "EOF" ELSE "ErrUnexpectedEOF"

\* binary.Read(framed.Stream, endianness, &nb) finds the stream at its end:
\* Read returns the error of the io.ReadFull inside binary.Read
ReadPrefixEOF(r) ==
    /\ rtask[r].pc = "prefix"
    /\ closed
    /\ wire = <<>>
    /\ ReadReturn(r, rtask[r], 0, ReadFullError(Len(rtask[r].pfx)))
    /\ UNCHANGED <<bigFrames, pipe, pend, msgLen, wire, hist, wmutex, wtask>>
    /\ UNCHANGED <<framedVars, auxVars>>

\* io.ReadFull(framed.Stream, buffer[:n]) finds the stream at its end
\* before it has n bytes: Read returns what it has and the error
ReadPayloadEOF(r) ==
    /\ rtask[r].pc = "payload"
    /\ closed
    /\ wire = <<>>
    /\ LET have == RunsLen(rtask[r].got)
       IN  ReadReturn(r, rtask[r], have, ReadFullError(have))
    /\ UNCHANGED <<bigFrames, pipe, pend, msgLen, wire, hist, wmutex, wtask>>
    /\ UNCHANGED <<framedVars, auxVars>>

InitRWEOF == InitStream(FALSE, FALSE, EndMsgLens)

NextRWEOF ==
    \/ \E w \in Tasks, kind \in {"Write", "WritePieces"} : WriteCall(w, kind)
    \/ \E w \in Tasks : WritePrefix(w)
    \/ \E w \in Tasks : WriteData(w)
    \/ \E w \in Tasks : WritePiece(w)
    \/ \E w \in Tasks : WriteFailed(w)
    \/ CloseRW
    \/ \E r \in Tasks : ReadCall(r, "Read", msgLen)
    \/ \E r \in Tasks : ReadPrefix(r)
    \/ \E r \in Tasks : ReadPayload(r)
    \/ \E r \in Tasks : ReadPrefixEOF(r)
    \/ \E r \in Tasks : ReadPayloadEOF(r)

SpecRWEOF == InitRWEOF /\ [][NextRWEOF]_vars

\* ------------------------------------------------------------------------
\* Calls that fail while other tasks wait for the same Reader or Writer:
\* Reads into buffers that are too small or at the end of the stream, and
\* Writes on a closed stream.
\* ------------------------------------------------------------------------
\* len(buffer): one short of the message, or the message
FailBufSizes == {msgLen - 1, msgLen}

NextLock ==
    \/ \E w \in Tasks, kind \in {"Write", "WritePieces"} : WriteCall(w, kind)
    \/ \E w \in Tasks : WritePrefix(w)
    \/ \E w \in Tasks : WriteData(w)
    \/ \E w \in Tasks : WritePiece(w)
    \/ \E w \in Tasks : WriteFailed(w)
    \/ CloseRW
    \/ \E r \in Tasks, buf \in FailBufSizes : ReadCall(r, "Read", buf)
    \/ \E r \in Tasks : ReadPrefix(r)
    \/ \E r \in Tasks : ReadPayload(r)
    \/ \E r \in Tasks : ReadPrefixEOF(r)
    \/ \E r \in Tasks : ReadPayloadEOF(r)

SpecLock == InitRWEOF /\ [][NextLock]_vars

\* ------------------------------------------------------------------------
\* The frame-writing calls on a stream whose Write can fail: WriteFrame of
\* the header/body Framed, the variadic WriteFrame of the first Framed,
\* Writer.Write and Writer.WritePieces.  wcall.pc names the stream write the
\* call makes next; every stream write succeeds or returns an error.
\* ------------------------------------------------------------------------
WriteOps == {"WriteFrame", "WriteFrameV", "Write", "WritePieces"}

\* the byte slices passed to a call: nil, empty or not
ArgSlices == Slices({0, 3})

WriteArgs(op) ==
    IF op = "WriteFrame" THEN {<<h, b>> : h \in ArgSlices, b \in ArgSlices}
    ELSE IF op = "Write" THEN {<<f>> : f \in ArgSlices}
    ELSE {<<>>} \cup {<<a>> : a \in ArgSlices}
                \cup {<<a, b>> : a \in ArgSlices, b \in ArgSlices}

\* the call returns err
Return(c, err) == [c EXCEPT !.pc = "done", !.err = err]

\* the error a failed stream write returns
WriteError == "ErrWrite"

\* a call is made
CallWrite(op, args) ==
    /\ wcall.pc \in {"idle", "done"}
    /\ wcall.calls < MaxOps
    /\ wcall' = [op |-> op, args |-> args,
                 pc |-> IF op = "WriteFrame" THEN "headerLength"
                        ELSE IF op = "WriteFrameV" THEN "numBytes"
                        ELSE "prefix",
                 i |-> 0, err |-> "", prefixFailed |-> FALSE,
                 calls |-> wcall.calls + 1]
    /\ UNCHANGED <<framedVars, rwVars, closed, pool, pframes>>

\* Framed.WriteFrame(header, body) of framed.go: its stream write at c.pc
\* returned, with an error unless ok
WriteFrameStep(c, ok) ==
    LET header == c.args[1]
        body   == c.args[2]
    IN  IF c.pc \in {"headerLength", "bodyLength"}
        THEN \* writeHeaderTo; WriteFrame returns its error
             IF ~ok THEN Return([c EXCEPT !.prefixFailed = TRUE], WriteError)
             ELSE IF c.pc = "headerLength" THEN [c EXCEPT !.pc = "bodyLength"]
             ELSE IF ~header.nil THEN [c EXCEPT !.pc = "header"]
             ELSE IF ~body.nil THEN [c EXCEPT !.pc = "body"]
             ELSE Return(c, "nil")
        ELSE IF c.pc = "header"
        THEN IF ~ok THEN Return(c, WriteError)
             ELSE IF ~body.nil THEN [c EXCEPT !.pc = "body"]
             ELSE Return(c, "nil")
        ELSE Return(c, IF ok THEN "nil" ELSE WriteError)

\* Framed.WriteFrame(byteArrays ...[]byte): err is assigned by the write
\* of the length and then by the Write of every byte array; the loop
\* returns on an error, and behind the loop the last assignment is returned
WriteFrameVStep(c, ok) ==
    LET err == IF ok THEN "nil" ELSE WriteError
    IN  IF c.pc = "numBytes"
        THEN LET c1 == [c EXCEPT !.err = err, !.prefixFailed = ~ok]
             IN  IF Len(c.args) > 0 THEN [c1 EXCEPT !.pc = "bytes", !.i = 1]
                 ELSE Return(c1, err)
        ELSE IF ~ok THEN Return(c, err)
             ELSE IF c.i < Len(c.args) THEN [c EXCEPT !.err = err, !.i = @ + 1]
             ELSE Return(c, err)

\* Writer.Write(frame) and Writer.WritePieces(pieces...): the write of the
\* length, then Stream.Write of the frame or of every piece
WriterStep(c, ok) ==
    IF c.pc = "prefix"
    THEN IF ~ok THEN Return([c EXCEPT !.prefixFailed = TRUE], WriteError)
         ELSE IF Len(c.args) > 0 THEN [c EXCEPT !.pc = "data", !.i = 1]
         ELSE Return(c, "nil")
    ELSE IF ~ok THEN Return(c, WriteError)
         ELSE IF c.i < Len(c.args) THEN [c EXCEPT !.i = @ + 1]
         ELSE Return(c, "nil")

\* the stream write the call is at returns
StreamWriteReturns(ok) ==
    /\ wcall.pc \notin {"idle", "done"}
    /\ wcall' = IF wcall.op = "WriteFrame" THEN WriteFrameStep(wcall, ok)
                ELSE IF wcall.op = "WriteFrameV" THEN WriteFrameVStep(wcall, ok)
                ELSE WriterStep(wcall, ok)
    /\ UNCHANGED <<framedVars, rwVars, closed, pool, pframes>>

NextFail ==
    \/ \E op \in WriteOps : \E args \in WriteArgs(op) : CallWrite(op, args)
    \/ \E ok \in BOOLEAN : StreamWriteReturns(ok)

SpecFail == Init /\ [][NextFail]_vars

\* ------------------------------------------------------------------------
\* Buffer pool: a free list of buffers of one width.  get() takes a buffer
\* from the free list, or makes a transient one when the list is empty;
\* put() gives a pool-owned buffer back to the free list.  Callers give
\* back only buffers they hold, once.
\* ------------------------------------------------------------------------
\* numbers of buffers a pool is created with, and their widths
PoolSizes  == {1, 2}
PoolWidths == {20, MAX_FRAME_SIZE, MAX_FRAME_SIZE + 1}

\* the pool owns the buffers 1..size; a transient buffer gets a greater id
NewPool(size, width) ==
    [width |-> width, size |-> size, free |-> 1..size, leased |-> {},
     last |-> [op |-> "", buf |-> 0, free |-> {}]]

Buffer(id, width, transient) == [id |-> id, cap |-> width, transient |-> transient]

\* an id no buffer on lease has
FreshId == CHOOSE id \in (pool.size + 1)..(pool.size + MaxLeases) :
               \A b \in pool.leased : b.id # id

\* a put() that takes every buffer into the free list
PutFree_always(free, b) == free \cup {b.id}

\* put(slice): a pool-owned buffer goes back to the free list, a transient
\* buffer does not
PutFree(free, b) == IF b.transient THEN free ELSE free \cup {b.id}

\* get(): no waiting; the model bounds the buffers on lease
PoolGet ==
    /\ Cardinality(pool.leased) < MaxLeases
    /\ IF pool.free # {}
       THEN \E id \in pool.free :
              pool' = [pool EXCEPT
                         !.free = @ \ {id},
                         !.leased = @ \cup {Buffer(id, pool.width, FALSE)},
                         !.last = [op |-> "get",
                                   buf |-> Buffer(id, pool.width, FALSE),
                                   free |-> pool.free]]
       ELSE pool' = [pool EXCEPT
                       !.leased = @ \cup {Buffer(FreshId, pool.width, TRUE)},
                       !.last = [op |-> "get",
                                 buf |-> Buffer(FreshId, pool.width, TRUE),
                                 free |-> pool.free]]
    /\ UNCHANGED <<framedVars, rwVars, closed, wcall, pframes>>

\* put(b) of a buffer the caller holds
PoolPut(b) ==
    /\ b \in pool.leased
    /\ pool' = [pool EXCEPT !.free = PutFree(@, b),
                            !.leased = @ \ {b},
                            !.last = [op |-> "put", buf |-> b, free |-> pool.free]]
    /\ UNCHANGED <<framedVars, rwVars, closed, wcall, pframes>>

InitPool ==
    /\ InitFramed
    /\ InitRWIdle
    /\ closed = FALSE
    /\ wcall = NoWrite
    /\ pool \in {NewPool(size, width) : size \in PoolSizes, width \in PoolWidths}
    /\ pframes = <<>>

NextPool ==
    \/ PoolGet
    \/ \E b \in pool.leased : PoolPut(b)

SpecPool == InitPool /\ [][NextPool]_vars

\* ------------------------------------------------------------------------
\* Frames read into buffers of the pool: ReadFrame of the pool-backed
\* Framed takes one buffer per pool width of payload, and Release gives the
\* buffers back.  One task uses the Framed.
\* ------------------------------------------------------------------------
\* pool.Width()
FrameWidths == {3, 20}

\* len(bytes) of the frames written: none, less than a buffer, a whole
\* buffer, more than one, two whole buffers
PooledLens(width) == {0, 1, width, width + 1, 2 * width}

\* a nil []byte
NilBuffer == [id |-> 0, cap |-> 0, transient |-> FALSE]

\* the frames written to the stream so far
NumWritten == Cardinality({j \in 1..Len(hist) : hist[j].t = "pfx"})

\* pool.Get() on the pool p: the first free buffer, or a transient one
PoolGetFrom(p) ==
    LET id  == IF p.free # {}
               THEN CHOOSE i \in p.free : \A j \in p.free : i <= j
               ELSE CHOOSE i \in (p.size + 1)..(p.size + MaxLeases + 1) :
                        \A b \in p.leased : b.id # i
        buf == Buffer(id, p.width, p.free = {})
    IN  [pool |-> [p EXCEPT !.free = @ \ {id},
                            !.leased = @ \cup {buf},
                            !.last = [op |-> "get", buf |-> buf, free |-> p.free]],
         buf  |-> buf]

\* pool.Put(b) on the pool p; a nil slice is no buffer of the pool and
\* leaves the free list as it is
PoolPutTo(p, b) ==
    IF b = NilBuffer THEN p
    ELSE [p EXCEPT !.free = PutFree(@, b),
                   !.leased = @ \ {b},
                   !.last = [op |-> "put", buf |-> b, free |-> p.free]]

\* WriteFrame(bytes) of the pool-backed Framed: the prefix, then the bytes
PooledWriteFrame(len) ==
    /\ NumWritten < MaxSent
    /\ StreamWrite(1, << PfxRun(ToUint16(len)), MsgRun(0, len) >>)
    /\ UNCHANGED <<bigFrames, pipe, msgLen, wmutex, rmutex, wtask, rtask>>
    /\ UNCHANGED <<framedVars, auxVars>>

\* frame = &Frame{pool, length}; numBuffers, lastBufferLength and
\* make([][]byte, numBuffers).  payload: the bytes behind the prefix that
\* belong to the frame; leased: what pool.Get() returned to the call
NewFrame(length, width, rest) ==
    [nil              |-> FALSE,
     length           |-> length,
     numBuffers       |-> length \div width + 1,
     lastBufferLength |-> length % width,
     Buffers          |-> <<>>,
     lastBuffer       |-> NilBuffer,
     err              |-> "",
     used             |-> 0,
     payload          |-> AddRuns(<<>>, TakeRuns(rest, Min(length, RunsLen(rest)))),
     leased           |-> <<>>,
     puts             |-> <<>>,
     released         |-> FALSE]

\* ReadFrame returned frame = nil and the error of binary.Read
NilFrame(used, err) ==
    [NewFrame(0, 1, <<>>) EXCEPT !.nil = TRUE, !.numBuffers = 0,
                                 !.used = used, !.err = err]

\* the loop "for i := 0; i < frame.numBuffers; i++" from buffer i on, on
\* the pool p and the stream bytes rest: a buffer is taken, sliced to
\* lastBufferLength when it is the last one and lastBufferLength is not
\* 0, stored in Buffers, and filled by stream.Read calls until
\* bytesToRead bytes are there or the stream ends
RECURSIVE ReadBuffers(_, _, _, _)
ReadBuffers(f, i, p, rest) ==
    IF i > f.numBuffers
    THEN [frame |-> f, pool |-> p, rest |-> rest, err |-> "nil"]
    ELSE LET g    == PoolGetFrom(p)
             isLast == i = f.numBuffers
             bytesToRead == IF isLast /\ f.lastBufferLength # 0
                            THEN f.lastBufferLength
                            ELSE p.width
             k    == Min(bytesToRead, RunsLen(rest))
             b    == [buf  |-> g.buf,
                      len  |-> bytesToRead,
                      data |-> AddRuns(<<>>, TakeRuns(rest, k))]
             f1   == [f EXCEPT !.Buffers = Append(@, b),
                               !.lastBuffer = IF isLast THEN g.buf ELSE @,
                               !.leased = Append(@, g.buf)]
         IN  IF k < bytesToRead
             THEN [frame |-> f1, pool |-> g.pool, rest |-> DropRuns(rest, k),
                   err |-> "EOF"]
             ELSE ReadBuffers(f1, i + 1, g.pool, DropRuns(rest, k))

\* Framed.ReadFrame(): binary.Read of the prefix, then the buffers.  The
\* call returns when the stream has given it all the bytes it asks for, or
\* has ended
PooledReadFrame ==
    /\ Len(pframes) < MaxOps
    /\ closed \/ RunsLen(wire) >= 2
    /\ IF RunsLen(wire) < 2
       THEN /\ pframes' = Append(pframes,
                             NilFrame(RunsLen(wire), ReadFullError(RunsLen(wire))))
            /\ wire' = <<>>
            /\ pool' = pool
       ELSE LET nb   == GetUint16(RunsBytes(TakeRuns(wire, 2)))
                rest == DropRuns(wire, 2)
                f    == NewFrame(nb, pool.width, rest)
                r    == ReadBuffers(f, 1, pool, rest)
            IN  /\ Cardinality(pool.leased) + f.numBuffers <= MaxLeases
                /\ closed \/ r.err = "nil"
                /\ pframes' = Append(pframes,
                                 [r.frame EXCEPT !.err = r.err,
                                                 !.used = RunsLen(wire) - RunsLen(r.rest)])
                /\ wire' = r.rest
                /\ pool' = r.pool
    /\ UNCHANGED <<bigFrames, pipe, pend, msgLen, hist, wmutex, rmutex, wtask, rtask>>
    /\ UNCHANGED <<framedVars, closed, wcall>>

\* the argument of the i-th pool.Put of Release: lastBuffer for the last
\* index, Buffers[i] (nil where ReadFrame stored nothing) for the others
ReleaseArg(f, i) ==
    IF i = f.numBuffers THEN f.lastBuffer
    ELSE IF i <= Len(f.Buffers) THEN f.Buffers[i].buf
    ELSE NilBuffer

RECURSIVE ReleaseFrom(_, _, _)
ReleaseFrom(f, i, p) ==
    IF i > f.numBuffers THEN [frame |-> f, pool |-> p]
    ELSE ReleaseFrom([f EXCEPT !.puts = Append(@, ReleaseArg(f, i))], i + 1,
                     PoolPutTo(p, ReleaseArg(f, i)))

\* frame.Release(), called once on a frame ReadFrame returned
Release(k) ==
    /\ ~pframes[k].nil
    /\ ~pframes[k].released
    /\ LET r == ReleaseFrom(pframes[k], 1, pool)
       IN  /\ pframes' = [pframes EXCEPT ![k] = [r.frame EXCEPT !.released = TRUE]]
           /\ pool' = r.pool
    /\ UNCHANGED <<framedVars, rwVars, closed, wcall>>

InitPooled ==
    /\ InitFramed
    /\ InitRWIdle
    /\ closed = FALSE
    /\ wcall = NoWrite
    /\ pool \in {NewPool(size, width) : size \in PoolSizes, width \in FrameWidths}
    /\ pframes = <<>>

NextPooled ==
    \/ \E len \in PooledLens(pool.width) : PooledWriteFrame(len)
    \/ CloseRW
    \/ PooledReadFrame
    \/ \E k \in 1..Len(pframes) : Release(k)

SpecPooled == InitPooled /\ [][NextPooled]_vars

\* ------------------------------------------------------------------------
\* Reader and Writer over the io.Pipe of the tests.  A Write on the pipe
\* hands its bytes to the Reads that ask for them and returns when all are
\* taken; an empty Write returns when one Read has met it, and that Read
\* returns 0 bytes.
\* ------------------------------------------------------------------------
\* a Stream.Read of reader r meets an empty Write on the pipe: the Write
\* returns, the Read returned 0 bytes and io.ReadFull calls Read again
PipeReadEmpty(r) ==
    /\ pipe
    /\ rtask[r].pc \in {"prefix", "payload"}
    /\ pend # 0
    /\ wire = <<>>
    /\ pend' = 0
    /\ UNCHANGED <<bigFrames, pipe, msgLen, wire, hist, wmutex, rmutex, wtask, rtask>>
    /\ UNCHANGED <<framedVars, auxVars>>

InitPipe == InitStream(FALSE, TRUE, MsgLens)

NextPipe ==
    \/ NextRW
    \/ \E w \in Tasks : WriteReturn(w)
    \/ \E r \in Tasks : PipeReadEmpty(r)

\* every task is scheduled again and again
SpecPipe == InitPipe /\ [][NextPipe]_vars /\ WF_vars(NextPipe)

\* ------------------------------------------------------------------------
\* Frames at and beyond the size limit, and buffers too small for a frame:
\* the payloads of TestWriteTooLong and TestWritePiecesTooLong, written
\* by Write and WritePieces and read by Read.
\* ------------------------------------------------------------------------
SizeMsgLens == {0, 3, MAX_FRAME_SIZE, MAX_FRAME_SIZE + 1}

\* len(buffer): one short of the message, the message, or more
SizeBufSizes == {b \in {msgLen - 1, msgLen, msgLen + 1} : b >= 0}

InitSize == InitStream(FALSE, FALSE, SizeMsgLens)

NextSize ==
    \/ \E w \in Tasks, kind \in {"Write", "WritePieces"} : WriteCall(w, kind)
    \/ \E w \in Tasks : WritePrefix(w)
    \/ \E w \in Tasks : WriteData(w)
    \/ \E w \in Tasks : WritePiece(w)
    \/ \E r \in Tasks, buf \in SizeBufSizes : ReadCall(r, "Read", buf)
    \/ \E r \in Tasks : ReadPrefix(r)
    \/ \E r \in Tasks : ReadPayload(r)

SpecSize == InitSize /\ [][NextSize]_vars

\* ------------------------------------------------------------------------
\* Claims about Reader and Writer
\* ------------------------------------------------------------------------
\* the test message as the content of a buffer
WholeMsg == IF msgLen = 0 THEN <<>> ELSE << MsgRun(0, msgLen) >>

\* C1: every Read or ReadFrame that returns without error returns exactly
\* the bytes of the test message: no part of a frame, and no bytes of two
\* frames or of a length prefix.
C1_ReadsWholeMessage ==
    \A r \in Tasks :
        (rtask[r].pc = "done" /\ rtask[r].err = "nil") =>
            /\ rtask[r].got = WholeMsg
            /\ rtask[r].n = msgLen

\* every task has returned; there was a Read and a ReadFrame, a Write and a
\* WritePieces, and every read returned the message of the greatest length
C1_Witness ==
    /\ msgLen = 65535
    /\ \A r \in Tasks : rtask[r].pc = "done" /\ rtask[r].err = "nil"
                        /\ rtask[r].got = WholeMsg
    /\ \A w \in Tasks : wtask[w].pc = "done"
    /\ \E r \in Tasks : rtask[r].kind = "Read"
    /\ \E r \in Tasks : rtask[r].kind = "ReadFrame"
    /\ \E w \in Tasks : wtask[w].kind = "Write"
    /\ \E w \in Tasks : wtask[w].kind = "WritePieces"

\* the writes h[i..] received by the stream continue a frame of writer w
\* that still lacks `need` payload bytes (w = 0: no frame is open)
RECURSIVE WholeFrames(_, _, _, _)
WholeFrames(h, i, w, need) ==
    IF i > Len(h) THEN TRUE
    ELSE IF need = 0
    THEN /\ h[i].t = "pfx" /\ h[i].off = 0 /\ h[i].n = 2
         /\ h[i].v = ToUint16(msgLen)
         /\ WholeFrames(h, i + 1, h[i].w, msgLen)
    ELSE /\ h[i].t = "msg"
         /\ h[i].w = w
         /\ h[i].off = msgLen - need
         /\ h[i].n <= need
         /\ WholeFrames(h, i + 1, w, need - h[i].n)

\* C2: the bytes the stream receives are a concatenation of whole frames:
\* the length prefix of a call is followed by all payload bytes of that
\* call before any byte of another call.
C2_WholeFramesOnWire == WholeFrames(hist, 1, 0, 0)

\* two calls, a Write and a WritePieces, were in progress at the same time
\* and the stream has received both frames
C2_Witness ==
    /\ msgLen = 3
    /\ \E w1 \in Tasks, w2 \in Tasks :
          /\ wtask[w1].kind = "Write" /\ wtask[w1].pc = "done"
          /\ wtask[w2].kind = "WritePieces" /\ wtask[w2].pc = "done"
          /\ \E i \in 1..Len(hist), j \in 1..Len(hist) :
                hist[i].w = w1 /\ hist[j].w = w2
    /\ RunsLen(hist) = 2 * (2 + msgLen)

\* the writes the stream received from writer w, as runs of bytes
WrittenBy(w) ==
    LET hw == SelectSeq(hist, LAMBDA h : h.w = w)
    IN  [j \in 1..Len(hw) |->
            [t |-> hw[j].t, v |-> hw[j].v, off |-> hw[j].off, n |-> hw[j].n]]

\* C11: with big frames disabled, a Write or WritePieces of more than
\* MaxFrameLength bytes puts no byte on the stream, neither of the length
\* prefix nor of the payload, and returns 0 bytes written and an error.
C11_OversizedWriteRejected ==
    \A w \in Tasks :
        (~bigFrames /\ msgLen > MAX_FRAME_SIZE /\ wtask[w].pc # "idle") =>
            /\ WrittenBy(w) = <<>>
            /\ wtask[w].pc = "done" => (wtask[w].err # "nil" /\ wtask[w].n = 0)

\* C12: a Write or WritePieces of L <= MaxFrameLength bytes returns L and no
\* error, and the stream has received from it a 2-byte prefix that decodes
\* to L and then the L bytes of the payload, nothing else.
C12_WriteWithinLimit ==
    \A w \in Tasks :
        (wtask[w].pc = "done" /\ msgLen <= MAX_FRAME_SIZE) =>
            /\ wtask[w].err = "nil"
            /\ wtask[w].n = msgLen
            /\ WrittenBy(w) # <<>>
            /\ Head(WrittenBy(w)).t = "pfx"
            /\ Len(RunBytes(Head(WrittenBy(w)))) = 2
            /\ GetUint16(RunBytes(Head(WrittenBy(w)))) = msgLen
            /\ AddRuns(<<>>, Tail(WrittenBy(w))) = WholeMsg

\* a Write and a WritePieces of MaxFrameLength bytes have returned
C12_Witness ==
    /\ msgLen = MAX_FRAME_SIZE
    /\ \E w1 \in Tasks, w2 \in Tasks :
          /\ wtask[w1].pc = "done" /\ wtask[w1].kind = "Write"
          /\ wtask[w1].n = MAX_FRAME_SIZE
          /\ wtask[w2].pc = "done" /\ wtask[w2].kind = "WritePieces"
          /\ wtask[w2].n = MAX_FRAME_SIZE
          /\ Len(WrittenBy(w2)) = 3

\* C13: a Read whose buffer is shorter than the length the prefix declares
\* returns 0 and an error, has put nothing into the buffer, and has taken
\* from the stream the 2 bytes of the prefix and no byte of the payload.
C13_BufferTooSmall ==
    [][\A r \in Tasks :
          LET k   == RunsLen(wire) - RunsLen(wire')
              pfx == rtask[r].pfx \o RunsBytes(TakeRuns(wire, k))
          IN  (/\ rtask[r].pc = "prefix" /\ rtask[r].kind = "Read"
               /\ rtask'[r] # rtask[r]
               /\ Len(pfx) = 2
               /\ GetUint16(pfx) > rtask[r].buf)
              => /\ rtask'[r].pc = "done"
                 /\ rtask'[r].err # "nil"
                 /\ rtask'[r].n = 0
                 /\ rtask'[r].got = <<>>
                 /\ rtask'[r].used = 2
                 /\ wire' = DropRuns(wire, k)]_vars

\* a Read has failed on a frame of MaxFrameLength bytes, and the payload
\* of that frame is still the next thing on the stream
C13_Witness ==
    /\ msgLen = MAX_FRAME_SIZE
    /\ \E r \in Tasks :
          /\ rtask[r].pc = "done" /\ rtask[r].err = "BufferTooSmall"
          /\ rtask[r].n = 0 /\ rtask[r].used = 2
    /\ wire # <<>>
    /\ Head(wire) = MsgRun(0, msgLen)

\* ------------------------------------------------------------------------
\* Claims about big frames
\* ------------------------------------------------------------------------
\* the chunk prefixes among the writes of w, as the numbers their bytes
\* encode
PrefixesOf(w) ==
    LET ps == SelectSeq(WrittenBy(w), LAMBDA h : h.t = "pfx")
    IN  [j \in 1..Len(ps) |-> GetUint16(RunBytes(ps[j]))]

RECURSIVE SumChunks(_)
SumChunks(ps) == IF ps = <<>> THEN 0 ELSE (Head(ps) % 32768) + SumChunks(Tail(ps))

\* ceil(L / 32767), and 1 for the empty message
NumChunks(L) == IF L = 0 THEN 1 ELSE (L + 32766) \div 32767

\* the writes ws are chunks that carry the message from byte off on: each
\* a prefix and then the bytes that prefix declares
RECURSIVE ChunksInOrder(_, _)
ChunksInOrder(ws, off) ==
    IF ws = <<>> THEN off = msgLen
    ELSE LET len == GetUint16(RunBytes(Head(ws))) % 32768
         IN  /\ Head(ws).t = "pfx" /\ Head(ws).off = 0 /\ Head(ws).n = 2
             /\ IF len = 0 THEN ChunksInOrder(Tail(ws), off)
                ELSE /\ Len(ws) >= 2
                     /\ ws[2] = MsgRun(off, len)
                     /\ ChunksInOrder(Tail(Tail(ws)), off + len)

\* C14: with big frames enabled, a write of a message of L bytes puts
\* ceil(L / 32767) chunks on the stream (one for L = 0), in order, each of
\* at most 32767 bytes, the lengths adding up to L; every chunk but the
\* last has the continuation flag set, the last has it clear.
C14_ChunksOfMessage ==
    \A w \in Tasks :
        (bigFrames /\ wtask[w].pc = "done") =>
            LET ps == PrefixesOf(w)
            IN  /\ Len(ps) = NumChunks(msgLen)
                /\ \A j \in 1..Len(ps) :
                      /\ ps[j] % 32768 <= 32767
                      /\ (ps[j] >= 32768) <=> (j < Len(ps))
                /\ SumChunks(ps) = msgLen
                /\ ChunksInOrder(WrittenBy(w), 0)

\* a message of MaxFrameLength + 1 bytes went out as chunks of 32767, 32767
\* and 2 bytes
C14_Witness ==
    /\ bigFrames
    /\ msgLen = MAX_FRAME_SIZE + 1
    /\ \E w \in Tasks :
          /\ wtask[w].pc = "done"
          /\ PrefixesOf(w) = << 32768 + 32767, 32768 + 32767, 2 >>

\* C15: with big frames enabled on Writer and Reader, one read returns
\* exactly the bytes one write was given, for every length; the read ends
\* with the first chunk whose flag is clear and takes no byte after it.
C15_BigRoundTrip ==
    \A r \in Tasks :
        (bigFrames /\ rtask[r].pc = "done" /\ rtask[r].err = "nil") =>
            /\ rtask[r].got = WholeMsg
            /\ rtask[r].n = msgLen
            /\ rtask[r].used = msgLen + 2 * NumChunks(msgLen)

\* a message of MaxFrameLength + 1 bytes was read back whole while the
\* chain of the next message was already on the stream
C15_Witness ==
    /\ bigFrames
    /\ msgLen = MAX_FRAME_SIZE + 1
    /\ \E r \in Tasks :
          /\ rtask[r].pc = "done" /\ rtask[r].err = "nil"
          /\ rtask[r].got = WholeMsg
          /\ rtask[r].used = msgLen + 6
    /\ wire # <<>>
    /\ Head(wire) = PfxRun(32768 + 32767)

\* the writes h[i..] continue a chain of writer w (w = 0: no chain is
\* open) of which off message bytes were sent, the current chunk lacking
\* need bytes and having the flag more
RECURSIVE WholeChains(_, _, _, _, _, _)
WholeChains(h, i, w, off, need, more) ==
    IF i > Len(h) THEN TRUE
    ELSE IF need > 0
    THEN /\ h[i].t = "msg"
         /\ h[i].w = w
         /\ h[i].off = off
         /\ h[i].n <= need
         /\ IF h[i].n = need /\ ~more
            THEN off + need = msgLen /\ WholeChains(h, i + 1, 0, 0, 0, FALSE)
            ELSE WholeChains(h, i + 1, w, off + h[i].n, need - h[i].n, more)
    ELSE LET v == GetUint16(RunBytes([t |-> h[i].t, v |-> h[i].v,
                                      off |-> h[i].off, n |-> h[i].n]))
         IN  /\ h[i].t = "pfx" /\ h[i].off = 0 /\ h[i].n = 2
             /\ w # 0 => h[i].w = w
             /\ IF v % 32768 = 0 /\ v < 32768
                THEN off = msgLen /\ WholeChains(h, i + 1, 0, 0, 0, FALSE)
                ELSE WholeChains(h, i + 1, h[i].w, off, v % 32768, v >= 32768)

\* C16: with big frames enabled and tasks writing and reading at the same
\* time, the chunks of one message lie together on the stream, no chunk
\* of another writer between them; a chain is read by one call, and each
\* read returns one whole message.
C16_ChainsNotMixed ==
    bigFrames =>
        /\ WholeChains(hist, 1, 0, 0, 0, FALSE)
        /\ \A r \in Tasks :
              /\ rtask[r].pc \in {"chunkPrefix", "chunkPayload"} => rmutex = r
              /\ rtask[r].pc = "done" => rtask[r].got = WholeMsg

\* every task has returned: two chains of three chunks went over the
\* stream and each reader has one whole message
C16_Witness ==
    /\ bigFrames
    /\ msgLen = MAX_FRAME_SIZE + 1
    /\ \A w \in Tasks : wtask[w].pc = "done" /\ Len(WrittenBy(w)) = 6
    /\ \A r \in Tasks : rtask[r].pc = "done" /\ rtask[r].got = WholeMsg
    /\ \E r \in Tasks : rtask[r].kind = "Read"
    /\ \E r \in Tasks : rtask[r].kind = "ReadFrame"

\* ------------------------------------------------------------------------
\* More claims about the header/body Framed
\* ------------------------------------------------------------------------
\* the n bytes of the stream from offset p on
StreamBytes(p, n) == [j \in 1..n |-> ByteAt(p + j - 1)]

\* offsets into a section of n bytes: its first bytes and its last byte
Samples(n) == {j \in {0, 1, 2, n - 2, n - 1} : 0 <= j /\ j < n}

\* the n bytes of the k-th frame on the stream from offset o of the frame on
FrameBytes(k, o, n) == [j \in 1..n |-> ByteIn(sent[k].writes, o + j - 1)]

\* C17: WriteFrame(header, body) puts on the stream the header length as
\* 16-bit little-endian, the body length as 16-bit little-endian, the
\* header bytes and the body bytes, in this order and nothing else; a nil
\* or empty section adds no payload byte.  ("HI", "BYE") gives
\* 02 00 03 00 48 49 42 59 45.
C17_WriteFrameBytes ==
    \A k \in 1..Len(sent) :
        LET h  == sent[k].header
            b  == sent[k].body
            ws == sent[k].writes
        IN  /\ WritesLength(ws) = 4 + h + b
            /\ FrameBytes(k, 0, 4) = << h % 256, h \div 256, b % 256, b \div 256 >>
            /\ \A j \in Samples(h) : ByteIn(ws, 4 + j) = HeaderByte(j)
            /\ \A j \in Samples(b) : ByteIn(ws, 4 + h + j) = BodyByte(j)
            /\ (h = 2 /\ b = 3) =>
                   FrameBytes(k, 0, 9) = << 2, 0, 3, 0, 72, 73, 66, 89, 69 >>
            /\ (h = 0 /\ b = 3) => FrameBytes(k, 0, 7) = << 0, 0, 3, 0, 66, 89, 69 >>
            /\ (h = 2 /\ b = 0) => FrameBytes(k, 0, 6) = << 2, 0, 0, 0, 72, 73 >>

\* ("HI", "BYE") was written after a frame with a nil or empty header and
\* a body of the greatest length
C17_Witness ==
    /\ Len(sent) = 2
    /\ sent[1].header = 0 /\ sent[1].body = 65535
    /\ sent[2].header = 2 /\ sent[2].body = 3
    /\ StreamBytes(StartOf(2), 9) = << 2, 0, 3, 0, 72, 73, 66, 89, 69 >>

\* C19: once every payload byte of a frame with at least one payload byte
\* has been consumed through its sections, header first or body first and
\* in reads of any size, the completion signal is raised, so that Next()
\* on the frame goes on to decode the following frame.
C19_ConsumedFrameSignals ==
    \A i \in Handles :
        LET f == frames[i]
        IN  (/\ caller = "running"
             /\ f.intact /\ Aligned(f)
             /\ f.headerLength + f.bodyLength >= 1
             /\ f.viaSection = f.headerLength + f.bodyLength
             /\ rpos = PayloadEnd(f))
            => (f.signals >= 1 /\ f.doneReading >= 1)

\* C20: a Discard() that returns without error has removed from the
\* stream exactly the payload bytes of its frame that were still unread,
\* whatever section reads came before, and Next() on the frame then
\* returns the frame that follows.
C20_DiscardSkipsToNextFrame ==
    [][\A i \in Handles :
          (/\ IsCall("Discard") /\ last'.h = i /\ last'.err = "nil"
           /\ frames[i].intact /\ Aligned(frames[i]))
          => /\ rpos' = PayloadEnd(frames[i])
             /\ frames'[i].doneReading >= 1]_vars

\* ------------------------------------------------------------------------
\* Claims about Reader and Writer on a pipe
\* ------------------------------------------------------------------------
\* every Write, WritePieces, WriteAtomic, Read and ReadFrame call the tasks
\* make has returned
AllReturned ==
    /\ \A w \in Tasks : wtask[w].pc = "done"
    /\ \A r \in Tasks : rtask[r].pc = "done"

\* C18: N tasks that write one frame each and N tasks that read one frame
\* each, over a blocking pipe: the calls never get stuck, every writer call
\* and every reader call returns.  Stated on the states in which no task
\* can take a step: there every call has returned.
C18_NoDeadlock == (~ENABLED NextPipe) => AllReturned

\* ------------------------------------------------------------------------
\* Claims about a stream that ends early
\* ------------------------------------------------------------------------
\* C23: Reader.Read never returns without error with fewer payload bytes
\* than the length prefix declared: when the stream ends behind the prefix
\* and before the last declared payload byte, Read returns an error.
C23_NoShortSuccess ==
    [][\A r \in Tasks :
          (/\ rtask[r].pc = "payload"
           /\ rtask'[r].pc = "done"
           /\ RunsLen(rtask'[r].got) < rtask[r].want)
          => rtask'[r].err \notin {"nil", ""}]_vars

\* a Read returned when the stream ended in the middle of the payload of a
\* frame, and the next Read found no prefix
C23_Witness ==
    /\ closed
    /\ \E r \in Tasks :
          /\ rtask[r].pc = "done"
          /\ rtask[r].err = "ErrUnexpectedEOF"
          /\ rtask[r].used > 2
          /\ RunsLen(rtask[r].got) < msgLen
    /\ \E r \in Tasks :
          /\ rtask[r].pc = "done"
          /\ rtask[r].err = "EOF"
          /\ rtask[r].used = 0

\* ------------------------------------------------------------------------
\* Claims about frames read into pool buffers
\* ------------------------------------------------------------------------
\* the bytes of the buffers of a frame, one after the other
RECURSIVE BuffersData(_)
BuffersData(bs) ==
    IF bs = <<>> THEN <<>> ELSE AddRuns(Head(bs).data, BuffersData(Tail(bs)))

RECURSIVE BuffersLen(_)
BuffersLen(bs) == IF bs = <<>> THEN 0 ELSE Head(bs).len + BuffersLen(Tail(bs))

\* C32: the pool-backed ReadFrame takes exactly 2 + L bytes from the stream
\* for a frame whose prefix declares the length L, for every L including 0
\* and the multiples of the pool width, the returned buffers hold exactly
\* the L payload bytes, and Release puts exactly the buffers ReadFrame
\* leased, each once.
C32_PooledReadFrame ==
    \A k \in 1..Len(pframes) :
       LET f == pframes[k]
       IN  /\ f.err = "nil" =>
                /\ f.used = 2 + f.length
                /\ BuffersLen(f.Buffers) = f.length
                /\ BuffersData(f.Buffers) = f.payload
           /\ (f.err = "nil" /\ f.released) =>
                /\ Len(f.puts) = Len(f.leased)
                /\ \A b \in {f.leased[i] : i \in 1..Len(f.leased)} :
                      Cardinality({i \in 1..Len(f.puts) : f.puts[i] = b}) = 1

\* ------------------------------------------------------------------------
\* Claims about the mutexes
\* ------------------------------------------------------------------------
\* the task that is inside a call of the Reader / of the Writer
InRead(r)  == rtask[r].pc \notin {"idle", "done"}
InWrite(w) == wtask[w].pc \notin {"idle", "done"}

\* C31: a failed call never leaves a lock held: after a Reader.Read that
\* failed (buffer too small, or an error of the stream) and after a Write
\* or WritePieces that failed, the task does not hold the mutex; the mutex
\* is held only by a task that is inside a call, so that with no call under
\* way it is free for the tasks that wait.
C31_FailedCallReleasesLock ==
    /\ \A r \in Tasks :
          (rtask[r].pc = "done" /\ rtask[r].err # "nil") => rmutex # r
    /\ \A w \in Tasks :
          (wtask[w].pc = "done" /\ wtask[w].err # "nil") => wmutex # w
    /\ rmutex # 0 => InRead(rmutex)
    /\ wmutex # 0 => InWrite(wmutex)

\* a Read failed on a buffer that is too small and a Write failed on the
\* closed stream, and in both cases another task has since taken the mutex
\* and is inside its call
C31_Witness ==
    /\ \E r1, r2 \in Tasks :
          /\ rtask[r1].pc = "done"
          /\ rtask[r1].err = "BufferTooSmall"
          /\ r2 # r1
          /\ rmutex = r2
          /\ InRead(r2)
    /\ \E w1, w2 \in Tasks :
          /\ wtask[w1].pc = "done"
          /\ wtask[w1].err = "ErrClosedPipe"
          /\ w2 # w1
          /\ wmutex = w2
          /\ InWrite(w2)

\* ------------------------------------------------------------------------
\* Claims about failing writes
\* ------------------------------------------------------------------------
\* C25: every frame-writing call (WriteFrame(header, body), the variadic
\* WriteFrame, Writer.Write, Writer.WritePieces) returns an error when the
\* stream failed the write of the length prefix, also when the payload
\* writes that followed succeeded.
C25_PrefixFailureReported ==
    (wcall.pc = "done" /\ wcall.prefixFailed) => wcall.err # "nil"

\* ------------------------------------------------------------------------
\* Claims about the buffer pool
\* ------------------------------------------------------------------------
\* C26: get() never blocks and returns a buffer whose capacity is the
\* width of the pool; with the free list empty it returns a transient
\* buffer; put() of a transient buffer leaves the free list as it was; the
\* free list never holds more buffers than the pool was created with.
C26_PoolGetPut ==
    /\ Cardinality(pool.leased) < MaxLeases => ENABLED PoolGet
    /\ \A b \in pool.leased : b.cap = pool.width
    /\ pool.last.op = "get" =>
          /\ pool.last.buf.cap = pool.width
          /\ pool.last.buf \in pool.leased
          /\ pool.last.free = {} => pool.last.buf.transient
    /\ (pool.last.op = "put" /\ pool.last.buf.transient) =>
          pool.free = pool.last.free
    /\ Cardinality(pool.free) <= pool.size
    /\ pool.free \subseteq 1..pool.size

\* a transient buffer was given back while the free list was full
C26_Witness ==
    /\ pool.size = 2
    /\ pool.last.op = "put"
    /\ pool.last.buf.transient
    /\ pool.last.free = 1..pool.size
    /\ pool.free = 1..pool.size

====
